---- MODULE Spec2Model ----
(***************************************************************************)
(* Layout / redraw engine of enlighten.                                    *)
(*                                                                         *)
(* Two manager classes live in the repository: the terminal Manager of     *)
(* enlighten/_manager.py and BaseManager of enlighten/_basemanager.py,     *)
(* whose only concrete subclass is NotebookManager.  A behaviour of this   *)
(* module follows one manager object of one of the two classes (cls).      *)
(* Widgets are the PrintableCounter objects of enlighten/_basecounter.py,  *)
(* named by the integers 1..MaxWidgets in creation order.                  *)
(*                                                                         *)
(* An operation of the program is computed on a record m that holds the    *)
(* manager's fields; the operators below are the methods, translated       *)
(* statement by statement, and a raised exception is the field exc.        *)
(***************************************************************************)
EXTENDS Integers, Sequences, FiniteSets, TLC

\* ------------------------------------------------------------------ bounds
\* Number of widget objects ever constructed (successful or not).
MaxWidgets == 3
\* Largest position a caller passes to counter()/status_bar().
MaxPos == 3
\* Operations stop being issued once this many fragments are staged and
\* unflushed (only reachable when refresh_lock is stuck).
MaxBuf == 6

\* Subcounters added to the counters of one manager.
MaxSubCounters == 2
\* The largest count, in absolute value, that a counter or subcounter reaches.
MaxCount == 1
\* The largest increment, in absolute value, of one update.
MaxIncr == 1
\* Widgets constructed in the behaviours with auto-refreshed widgets.
MaxAutoWidgets == 2
\* Rows of the tallest terminal.
MaxHeight == 3
\* Calls in progress on one thread, signal handlers included.
MaxDepth == 4
\* Columns of the widest terminal.
MaxWidth == 4
\* Terminal Managers constructed in one process.
MaxManagers == 2

\* Terminal heights the real terminal takes, and the one it starts with.
Heights == {MaxHeight - 1, MaxHeight}
InitialHeight == MaxHeight
\* Terminal widths the real terminal takes, and the one it starts with.
Widths == 1..MaxWidth
InitialWidth == MaxWidth
\* position=None
NoPos == -1
\* counter=None / replace=None
NoCtr == 0

Ids == 1..MaxWidgets
\* The managers of one process, and the SIGWINCH handler the process starts with
Managers == 1..MaxManagers
SigDefault == 0
\* The main thread, which runs the signal handlers, and another thread
Threads == {"main", "worker"}
Positions == 0..MaxPos

\* ------------------------------------------------------------------- state
VARIABLES
    cls,            \* "Manager" | "NotebookManager"
    threaded,       \* Manager.threaded
    set_scroll,     \* Manager.set_scroll
    companion,      \* Manager.companion_stream is not None
    realH,          \* the height of the real terminal
    termH,          \* Terminal._cache['height_and_width'] (height part)
    enabled,        \* manager.enabled
    enabled_default,\* manager.defaults['enabled']: the widgets' enabled at construction
    counters,       \* manager.counters: OrderedDict, a sequence of [id, pos]
    autorefresh,    \* manager.autorefresh: list of widgets
    buffer,         \* manager._buffer
    cbuffer,        \* manager._companion_buffer
    output,         \* NotebookManager._output
    height,         \* manager.height
    scroll_offset,  \* manager.scroll_offset
    process_exit,   \* manager.process_exit
    registered,     \* how many times _at_exit and the SIGWINCH handler were registered
    stream_closed,  \* manager.stream has been closed
    refresh_lock,   \* manager.refresh_lock
    resize,         \* manager._resize
    resize_lock,    \* manager.resize_lock
    ctr,            \* the widgets' fields: id -> [pinned, leave, enabled, closed, held]
    nextId,         \* the next widget to be constructed
    written,        \* what the last operation wrote to the stream, one frame per write
    cwritten,       \* what the last operation wrote to the companion stream
    calls,          \* the calls the last operation made on the two streams, in order
    realW,          \* the columns the real terminal has
    cache,          \* Terminal._cache: empty, or the (height, width) of the last probe
    lastOp,         \* the last operation, its arguments and its outcome
    limit,          \* how many widgets the behaviour constructs
    stacks,         \* thread -> the calls in progress on it, innermost last
    sigwinch,       \* the process's SIGWINCH handler: SigDefault or a manager's _stage_resize
    mgrs,           \* the terminal Managers of one process: manager -> its fields
    quiet           \* since the last signal a write() has started with no call in
                    \* progress and has completed

vars == <<cls, threaded, set_scroll, companion, realH, termH, enabled, enabled_default, counters,
          autorefresh, buffer, cbuffer, output, height, scroll_offset,
          process_exit, registered, stream_closed, refresh_lock, resize,
          resize_lock, ctr, nextId, written, cwritten, lastOp, limit, stacks, quiet,
          sigwinch, mgrs, calls, realW, cache>>

\* --------------------------------------------------------------- fragments
\* What the terminal capabilities return; a frame is a sequence of these.
Frag(k, a, b) == [k |-> k, a |-> a, b |-> b]
Move(row) == Frag("move", row, 0)
\* LineFeeds with one line feed whatever the count
LineFeedsOnce(n) == Frag("nl", 1, 0)
\* u'\\n' * n
LineFeeds(n) == Frag("nl", n, 0)
CarriageReturn == Frag("cr", 0, 0)
ClearEol == Frag("clear_eol", 0, 0)
ClearEos == Frag("clear_eos", 0, 0)
HideCursor == Frag("hide_cursor", 0, 0)
NormalCursor == Frag("normal_cursor", 0, 0)
Csr(top, bottom) == Frag("csr", top, bottom)
\* the output of write(): widget c's formatted text, or '' when c = NoCtr
Text(c) == Frag("text", c, 0)
\* NotebookManager._output entries
Blank == Frag("blank", 0, 0)
Bar(c) == Frag("bar", c, 0)

\* ----------------------------------------------------------------- helpers
Max2(a, b) == IF a > b THEN a ELSE b

SetMax(S) == CHOOSE x \in S : \A y \in S : y <= x

Range(s) == {s[i] : i \in 1..Len(s)}

Reverse(s) == [i \in 1..Len(s) |-> s[Len(s) + 1 - i]]

\* widget in self.counters
Managed(cs, c) == \E i \in 1..Len(cs) : cs[i].id = c

\* self.counters[widget]
PosOf(cs, c) == LET i == CHOOSE i \in 1..Len(cs) : cs[i].id = c IN cs[i].pos

\* self.counters.values()
Values(cs) == {cs[i].pos : i \in 1..Len(cs)}

\* SetPos storing offset 1 whatever offset is given
SetPosFirstRow(cs, c, p) ==
    IF Managed(cs, c)
        THEN [i \in 1..Len(cs) |-> IF cs[i].id = c THEN [id |-> c, pos |-> 1] ELSE cs[i]]
        ELSE Append(cs, [id |-> c, pos |-> 1])

\* self.counters[widget] = pos: a new key is appended, an old key keeps its place
SetPos(cs, c, p) ==
    IF Managed(cs, c)
        THEN [i \in 1..Len(cs) |-> IF cs[i].id = c THEN [id |-> c, pos |-> p] ELSE cs[i]]
        ELSE Append(cs, [id |-> c, pos |-> p])

\* del self.counters[widget]
DelKey(cs, c) == SelectSeq(cs, LAMBDA e : e.id # c)

\* list.remove(widget): the first occurrence
ListRemove(l, c) ==
    LET i == CHOOSE i \in 1..Len(l) : l[i] = c /\ \A j \in 1..(i - 1) : l[j] # c
    IN  SubSeq(l, 1, i - 1) \o SubSeq(l, i + 1, Len(l))

\* ------------------------------------------------------- the manager record
\* The fields of the manager and of its widgets an operation works on, with
\*   exc     the exception that is propagating ("none" when there is none),
\*   due     whether min_delta has elapsed since the widgets' last_update
\*           when the operation starts (time.time() does not advance by a
\*           min_delta within one operation),
\*   fresh   the widgets whose last_update was set to time.time() by this
\*           operation, zeroed those whose last_update was set to 0 by it.
Pack(d) ==
    [enabled |-> enabled, counters |-> counters, autorefresh |-> autorefresh,
     buffer |-> buffer, cbuffer |-> cbuffer, output |-> output,
     height |-> height, termH |-> termH, realH |-> realH,
     scroll_offset |-> scroll_offset, process_exit |-> process_exit,
     registered |-> registered,
     refresh_lock |-> refresh_lock, resize |-> resize,
     resize_lock |-> resize_lock, ctr |-> ctr,
     written |-> <<>>, cwritten |-> <<>>, calls |-> <<>>,
     exc |-> "none", due |-> d, fresh |-> {}, zeroed |-> {}, toRefresh |-> <<>>]

Raise(m, e) == [m EXCEPT !.exc = e]

Ok(m) == m.exc = "none"

\* counter.min_delta > current_time - counter.last_update is false
Due(m, c) == c \notin m.fresh /\ (m.due \/ c \in m.zeroed)

\* ------------------------------------------------------------- the methods
\* Statement sequencing: the value of v, then K applied to that value.
Then(v, K(_)) == CHOOSE r \in {K(y) : y \in {v}} : TRUE

\* FlushManager writing the companion stream first and keeping the companion
\* buffer when there is no companion stream
FlushManagerCompanionFirst(m) ==
    IF stream_closed THEN Raise(m, "ValueError")
    ELSE
    [m EXCEPT !.written = IF m.buffer # <<>> THEN Append(@, m.buffer) ELSE @,
              !.cwritten = IF companion /\ m.cbuffer # <<>>
                              THEN Append(@, m.cbuffer) ELSE @,
              !.calls = @ \o (IF companion /\ m.cbuffer # <<>>
                                 THEN <<"companion_stream.write">> ELSE <<>>)
                          \o (IF companion THEN <<"companion_stream.flush">> ELSE <<>>)
                          \o (IF m.buffer # <<>> THEN <<"stream.write">> ELSE <<>>)
                          \o <<"stream.flush">>,
              !.buffer = <<>>,
              !.cbuffer = IF companion THEN <<>> ELSE @]

\* Manager._flush_streams(): stream.write() and stream.flush() raise
\* ValueError on a closed stream
FlushManager(m) ==
    IF stream_closed THEN Raise(m, "ValueError")
    ELSE
    [m EXCEPT !.written = IF m.buffer # <<>> THEN Append(@, m.buffer) ELSE @,
              !.cwritten = IF companion /\ m.cbuffer # <<>>
                              THEN Append(@, m.cbuffer) ELSE @,
              !.calls = @ \o (IF m.buffer # <<>> THEN <<"stream.write">> ELSE <<>>)
                          \o <<"stream.flush">>
                          \o (IF companion /\ m.cbuffer # <<>>
                                 THEN <<"companion_stream.write">> ELSE <<>>)
                          \o (IF companion THEN <<"companion_stream.flush">> ELSE <<>>),
              !.buffer = <<>>,
              !.cbuffer = <<>>]

\* NotebookManager._flush_streams()
FlushNotebook(m) ==
    IF ~m.enabled THEN m
    ELSE [m EXCEPT !.written = Append(@, Reverse(m.output))]

\* _flush_streams() writing the primary buffer to the companion stream as well
FlushStreamsEcho(m) ==
    IF cls = "Manager"
        THEN Then(FlushManager(m), LAMBDA r :
             IF Ok(r) /\ companion /\ m.buffer # <<>>
                THEN [r EXCEPT !.cwritten = Append(@, m.buffer)]
                ELSE r)
        ELSE FlushNotebook(m)

\* _flush_streams()
FlushStreams(m) ==
    IF cls = "Manager" THEN FlushManager(m) ELSE FlushNotebook(m)

\* SetScrollAreaManager assigning the new offset whether it grew or not
SetScrollAreaExact(m, force) ==
    IF m.counters = <<>> THEN Raise(m, "ValueError")
    ELSE
    Then(SetMax(Values(m.counters)) + 1, LAMBDA newOffset :
    Then([m EXCEPT !.scroll_offset = newOffset,
                   !.registered = IF m.enabled /\ ~m.process_exit THEN @ + 1 ELSE @,
                   !.process_exit = IF m.enabled THEN TRUE ELSE @], LAMBDA m2 :
        IF ~m2.enabled \/ ~set_scroll THEN m2
        ELSE
        LET newHeight == m2.termH
            scrollPosition == Max2(0, newHeight - m2.scroll_offset)
            redo == force \/ newOffset # m.scroll_offset \/ newHeight # m2.height
            region == IF redo THEN <<HideCursor, Csr(0, scrollPosition)>> ELSE <<>>
        IN  [m2 EXCEPT
                !.height = IF redo THEN newHeight ELSE @,
                !.buffer = @ \o region \o <<Move(scrollPosition)>>,
                !.cbuffer = IF companion THEN Append(@, Move(scrollPosition)) ELSE @]))

\* Manager._set_scroll_area(force)
SetScrollAreaManager(m, force) ==
    IF m.counters = <<>> THEN Raise(m, "ValueError")
    ELSE
    Then(m.scroll_offset, LAMBDA oldOffset :
    Then(SetMax(Values(m.counters)) + 1, LAMBDA newOffset :
    Then(newOffset > oldOffset, LAMBDA use_new :
    Then([m EXCEPT !.scroll_offset = IF use_new THEN newOffset ELSE @,
                   !.registered = IF m.enabled /\ ~m.process_exit THEN @ + 1 ELSE @,
                   !.process_exit = IF m.enabled THEN TRUE ELSE @], LAMBDA m2 :
        IF ~m2.enabled \/ ~set_scroll THEN m2
        ELSE
        LET newHeight == m2.termH
            scrollPosition == Max2(0, newHeight - m2.scroll_offset)
            redo == force \/ use_new \/ newHeight # m2.height
            feeds == IF use_new
                        THEN <<Move(Max2(0, newHeight - oldOffset)),
                               LineFeeds(newOffset - oldOffset)>>
                        ELSE <<>>
            region == IF redo
                        THEN feeds \o <<HideCursor, Csr(0, scrollPosition)>>
                        ELSE <<>>
        IN  [m2 EXCEPT
                !.height = IF redo THEN newHeight ELSE @,
                !.buffer = @ \o region \o <<Move(scrollPosition)>>,
                !.cbuffer = IF companion THEN Append(@, Move(scrollPosition)) ELSE @]))))

\* SetScrollArea that forgets the scroll_offset reached before
SetScrollAreaAfresh(m, force) ==
    IF cls = "Manager" THEN SetScrollAreaManager([m EXCEPT !.scroll_offset = 1], force) ELSE m

\* _set_scroll_area(force): a no-op in BaseManager
SetScrollArea(m, force) ==
    IF cls = "Manager" THEN SetScrollAreaManager(m, force) ELSE m

RECURSIVE Write(_, _, _, _)
RECURSIVE AutoLoop(_, _, _)
RECURSIVE ResizeLoop(_, _)

\* PrintableCounter.refresh(flush)
Refresh(m, c, flush) ==
    IF ~Ok(m) \/ ~m.ctr[c].enabled THEN m
    ELSE Then([m EXCEPT !.fresh = @ \cup {c}, !.zeroed = @ \ {c}], LAMBDA m1 :
         Write(m1, c, TRUE, flush))

\* Clear writing the widget's text instead of an empty line
ClearDrawsText(m, c, flush) ==
    IF ~Ok(m) \/ ~m.ctr[c].enabled THEN m
    ELSE Then(Write(m, c, TRUE, flush), LAMBDA r :
         IF Ok(r) THEN [r EXCEPT !.fresh = @ \ {c}, !.zeroed = @ \cup {c}] ELSE r)

\* PrintableCounter.clear(flush)
Clear(m, c, flush) ==
    IF ~Ok(m) \/ ~m.ctr[c].enabled THEN m
    ELSE Then(Write(m, c, FALSE, flush), LAMBDA r :
         IF Ok(r) THEN [r EXCEPT !.fresh = @ \ {c}, !.zeroed = @ \cup {c}] ELSE r)

\* AutoLoop refreshing the excluded widget as well
AutoLoopAll(m, i, exclude) ==
    IF ~Ok(m) \/ i > Len(m.autorefresh) THEN m
    ELSE IF ~Due(m, m.autorefresh[i])
        THEN Then(i + 1, LAMBDA j : AutoLoop(m, j, exclude))
    ELSE Then(Refresh(m, m.autorefresh[i], TRUE), LAMBDA m1 :
         Then(i + 1, LAMBDA j : AutoLoop(m1, j, exclude)))

\* the loop of Manager._autorefresh over self.autorefresh[i..]
AutoLoop(m, i, exclude) ==
    IF ~Ok(m) \/ i > Len(m.autorefresh) THEN m
    ELSE IF m.autorefresh[i] = exclude \/ ~Due(m, m.autorefresh[i])
        THEN Then(i + 1, LAMBDA j : AutoLoop(m, j, exclude))
    ELSE Then(Refresh(m, m.autorefresh[i], TRUE), LAMBDA m1 :
         Then(i + 1, LAMBDA j : AutoLoop(m1, j, exclude)))

\* Manager._autorefresh(exclude)
AutoRefresh(m, exclude) ==
    IF m.refresh_lock THEN m
    ELSE Then([m EXCEPT !.refresh_lock = TRUE], LAMBDA m1 :
         Then(AutoLoop(m1, 1, exclude), LAMBDA r :
         IF Ok(r) THEN [r EXCEPT !.refresh_lock = FALSE] ELSE r))

\* the loop of Manager._resize_handler over self.counters[i..]
ResizeLoop(m, i) ==
    IF ~Ok(m) \/ i > Len(m.counters) THEN m
    ELSE Then(Refresh(m, m.counters[i].id, FALSE), LAMBDA m1 :
         Then(i + 1, LAMBDA j : ResizeLoop(m1, j)))

\* Manager._resize_handler() from `buffer = self._buffer` to the flush, with
\* the terminal's size read into the cache (_manager.py:294-317)
ResizeBody(m) ==
    Then([m EXCEPT !.termH = m.realH], LAMBDA m1 :
    LET newHeight == m1.termH
        top == Move(Max2(0, newHeight - m1.scroll_offset))
    IN  IF newHeight < m1.height /\ m1.counters = <<>>
            THEN Raise([m1 EXCEPT !.buffer = Append(@, top)], "ValueError")
        ELSE
        LET feeds == IF newHeight < m1.height
                        THEN <<top, LineFeeds(2 * SetMax(Values(m1.counters)))>>
                     ELSE IF newHeight > m1.height /\ threaded
                        THEN <<Move(newHeight), LineFeeds(m1.scroll_offset - 1)>>
                     ELSE <<>>
        IN  Then([m1 EXCEPT !.buffer = @ \o feeds \o <<top, ClearEos>>], LAMBDA m2 :
            Then(SetScrollArea(m2, TRUE), LAMBDA m3 :
            Then(ResizeLoop(m3, 1), LAMBDA m4 :
            IF Ok(m4) THEN FlushStreams(m4) ELSE m4))))

\* Manager._resize_handler()
ResizeHandler(m) ==
    IF m.resize_lock THEN m
    ELSE
    Then([m EXCEPT !.resize_lock = TRUE], LAMBDA m1 :
    Then(ResizeBody(m1), LAMBDA m2 :
    IF Ok(m2) THEN [m2 EXCEPT !.resize_lock = FALSE] ELSE m2))

\* WriteManager flushing before the scroll area is restored
WriteManagerFlushFirst(m, c, isText, flush) ==
    IF ~m.enabled THEN m
    ELSE IF m.resize /\ ~m.resize_lock
        THEN [ResizeHandler(m) EXCEPT !.resize = FALSE]
    ELSE IF c # NoCtr /\ ~Managed(m.counters, c) THEN Raise(m, "KeyError")
    ELSE
    LET position == IF c # NoCtr THEN PosOf(m.counters, c) ELSE 0
    IN  Then([m EXCEPT !.buffer = @ \o <<Move(m.termH - position), CarriageReturn,
                                         ClearEol, Text(IF isText THEN c ELSE NoCtr)>>],
        LAMBDA m1 :
        IF m1.refresh_lock THEN m1
        ELSE Then(IF m1.autorefresh # <<>> THEN AutoRefresh(m1, c) ELSE m1, LAMBDA m2 :
             Then(IF Ok(m2) /\ flush THEN FlushStreams(m2) ELSE m2, LAMBDA m3 :
             IF Ok(m3) THEN SetScrollArea(m3, FALSE) ELSE m3)))

\* Manager.write(output, flush, counter): output is the widget's format when
\* isText and '' otherwise
WriteManager(m, c, isText, flush) ==
    IF ~m.enabled THEN m
    ELSE IF m.resize /\ ~m.resize_lock
        THEN [ResizeHandler(m) EXCEPT !.resize = FALSE]
    ELSE IF c # NoCtr /\ ~Managed(m.counters, c) THEN Raise(m, "KeyError")
    ELSE
    LET position == IF c # NoCtr THEN PosOf(m.counters, c) ELSE 0
    IN  Then([m EXCEPT !.buffer = @ \o <<Move(m.termH - position), CarriageReturn,
                                         ClearEol, Text(IF isText THEN c ELSE NoCtr)>>],
        LAMBDA m1 :
        IF m1.refresh_lock THEN m1
        ELSE Then(IF m1.autorefresh # <<>> THEN AutoRefresh(m1, c) ELSE m1, LAMBDA m2 :
             Then(IF Ok(m2) THEN SetScrollArea(m2, FALSE) ELSE m2, LAMBDA m3 :
             IF Ok(m3) /\ flush THEN FlushStreams(m3) ELSE m3)))

\* NotebookManager.write(output, flush, counter)
WriteNotebook(m, c, isText, flush) ==
    IF ~m.enabled THEN m
    ELSE IF c # NoCtr /\ ~Managed(m.counters, c) THEN Raise(m, "KeyError")
    ELSE
    LET position == IF c # NoCtr THEN PosOf(m.counters, c) ELSE 1
        n      == Len(m.output)
        filled == [i \in 1..Max2(n, position) |-> IF i <= n THEN m.output[i] ELSE Blank]
        index  == IF position >= 1 THEN position ELSE Len(filled) + position
    IN  IF index < 1 THEN Raise(m, "IndexError")
        ELSE Then([m EXCEPT !.output =
                        [filled EXCEPT ![index] = Bar(IF isText THEN c ELSE NoCtr)]],
             LAMBDA m1 : IF flush THEN FlushStreams(m1) ELSE m1)

\* Write without the test of manager.enabled
WriteWhenDisabled(m, c, isText, flush) ==
    Then([m EXCEPT !.enabled = TRUE], LAMBDA on :
    Then(IF cls = "Manager" THEN WriteManager(on, c, isText, flush)
         ELSE WriteNotebook(on, c, isText, flush), LAMBDA r :
    [r EXCEPT !.enabled = m.enabled]))

\* manager.write(output, flush, counter)
Write(m, c, isText, flush) ==
    IF cls = "Manager" THEN WriteManager(m, c, isText, flush)
    ELSE WriteNotebook(m, c, isText, flush)

\* Remove with the leave test inverted
RemoveInverted(m, c) ==
    IF ~m.ctr[c].leave THEN m
    ELSE IF ~Managed(m.counters, c) THEN m
    ELSE [m EXCEPT !.counters = DelKey(@, c),
                   !.autorefresh = IF c \in Range(@) THEN ListRemove(@, c) ELSE @]

\* BaseManager.remove(counter) and Manager.remove(counter): the same code
Remove(m, c) ==
    IF m.ctr[c].leave THEN m
    ELSE IF ~Managed(m.counters, c) THEN m
    ELSE [m EXCEPT !.counters = DelKey(@, c),
                   !.autorefresh = IF c \in Range(@) THEN ListRemove(@, c) ELSE @]

\* PrintableCounter.close(clear)
Close(m, c, clear) ==
    Then([m EXCEPT !.ctr[c].closed = TRUE], LAMBDA m1 :
    Then(IF clear /\ ~m1.ctr[c].leave THEN Clear(m1, c, TRUE)
         ELSE IF Managed(m1.counters, c) THEN Refresh(m1, c, TRUE)
         ELSE m1, LAMBDA m2 :
    IF Ok(m2) THEN Remove(m2, c) ELSE m2))

\* pinned = {pos: ctr for ctr, pos in self.counters.items() if ctr._pinned}
PinnedDict(m) ==
    LET idx == {i \in 1..Len(m.counters) : m.ctr[m.counters[i].id].pinned}
    IN  [p \in {m.counters[i].pos : i \in idx} |->
            LET last == CHOOSE i \in idx : /\ m.counters[i].pos = p
                                           /\ \A j \in idx : m.counters[j].pos = p => j <= i
            IN  m.counters[last].id]

\* DictValues without the pinned widgets: the walk skips none
DictValuesNone(d) == {}

\* pinned.values()
DictValues(d) == {d[p] : p \in DOMAIN d}

\* SkipPinned without the loop
SkipPinnedNever(pinned, pos) == pos

\* while pos in pinned: pos += 1
RECURSIVE SkipPinned(_, _)
SkipPinned(pinned, pos) ==
    IF pos \in DOMAIN pinned
        THEN Then(pos + 1, LAMBDA next : SkipPinned(pinned, next))
        ELSE pos

\* The condition under which a widget whose position changes is cleared and
\* queued for a refresh (_manager.py:250, _basemanager.py:277)
ClearsMoved(c, new, status) ==
    IF cls = "Manager" THEN c # new \/ status ELSE c # new

\* LayoutLoop that leaves every widget at the offset it has
LayoutLoopInPlace(m, i, pos, pinned, new, status) == m

\* for ctr in reversed(self.counters): ..., from index i downwards
RECURSIVE LayoutLoop(_, _, _, _, _, _)
LayoutLoop(m, i, pos, pinned, new, status) ==
    IF ~Ok(m) \/ i = 0 THEN m
    ELSE
    Then(i - 1, LAMBDA j :
    Then(m.counters[i].id, LAMBDA c :
        IF c \in DictValues(pinned) THEN LayoutLoop(m, j, pos, pinned, new, status)
        ELSE
        Then(m.counters[i].pos, LAMBDA old_pos :
        Then(SkipPinned(pinned, pos), LAMBDA pos1 :
        Then(IF pos1 # old_pos /\ ClearsMoved(c, new, status)
                THEN [Clear(m, c, FALSE) EXCEPT !.toRefresh = Append(@, c)]
                ELSE m, LAMBDA m1 :
        Then(IF pos1 # old_pos /\ Ok(m1)
                THEN [m1 EXCEPT !.counters = SetPos(@, c, pos1)]
                ELSE m1, LAMBDA m2 :
        Then(pos1 + 1, LAMBDA pos2 :
        LayoutLoop(m2, j, pos2, pinned, new, status))))))))

\* for ctr in reversed(toRefresh): ctr.refresh(flush=False), from index i downwards
RECURSIVE RefreshAll(_, _)
RefreshAll(m, i) ==
    IF ~Ok(m) \/ i = 0 THEN m
    ELSE Then(Refresh(m, m.toRefresh[i], FALSE), LAMBDA m1 :
         Then(i - 1, LAMBDA j : RefreshAll(m1, j)))

\* Relayout with the walk starting at offset 2
RelayoutFromTwo(m, pinned, new, status) ==
    Then(LayoutLoop(m, Len(m.counters), 2, pinned, new, status), LAMBDA m1 :
    Then(IF Ok(m1) THEN SetScrollArea(m1, FALSE) ELSE m1, LAMBDA m2 :
    Then(RefreshAll(m2, Len(m2.toRefresh)), LAMBDA m3 :
    IF Ok(m3) THEN FlushStreams(m3) ELSE m3)))

\* The tail of _add_counter: the walk over the counters, the scroll area, the
\* refreshes and the flush (_manager.py:235-261, _basemanager.py:262-288)
Relayout(m, pinned, new, status) ==
    Then(LayoutLoop(m, Len(m.counters), 1, pinned, new, status), LAMBDA m1 :
    Then(IF Ok(m1) THEN SetScrollArea(m1, FALSE) ELSE m1, LAMBDA m2 :
    Then(RefreshAll(m2, Len(m2.toRefresh)), LAMBDA m3 :
    IF Ok(m3) THEN FlushStreams(m3) ELSE m3)))

\* new = counter_class(*args, **kwargs); if autorefresh: self.autorefresh.append(new)
Construct(m, new, status, leave, auto) ==
    [m EXCEPT !.ctr[new] = [pinned |-> FALSE, leave |-> leave, enabled |-> enabled_default,
                            closed |-> FALSE, held |-> FALSE, count |-> 0,
                            subcounters |-> <<>>, total |-> {}],
              !.autorefresh = IF auto THEN Append(@, new) ELSE @]

\* Manager._add_counter(counter_class, position=position, autorefresh=auto, leave=leave)
AddCounterManager(m, new, status, position, auto, leave) ==
    Then(Construct(m, new, status, leave, auto), LAMBDA m0 :
    Then(PinnedDict(m0), LAMBDA pinned :
        IF position # NoPos
        THEN IF position \in DOMAIN pinned THEN Raise(m0, "ValueError")
             ELSE IF position > m0.height THEN Raise(m0, "ValueError")
             ELSE Then([m0 EXCEPT !.ctr[new].pinned = TRUE,
                                  !.counters = SetPos(@, new, position),
                                  !.toRefresh = IF status THEN <<new>> ELSE <<>>],
                  LAMBDA m1 :
                  Then((position :> new) @@ pinned, LAMBDA pinned1 :
                  Relayout(m1, pinned1, new, status)))
        ELSE Then([m0 EXCEPT !.counters = SetPos(@, new, 0)], LAMBDA m1 :
             Relayout(m1, pinned, new, status))))

\* BaseManager._add_counter(counter_class, position=position, autorefresh=auto,
\*                          replace=replace, leave=leave)
AddCounterBase(m, new, status, position, auto, leave, replace) ==
    Then(Construct(m, new, status, leave, auto), LAMBDA m0 :
    Then(PinnedDict(m0), LAMBDA pinned :
    Then(IF status THEN <<new>> ELSE <<>>, LAMBDA toRefresh :
        IF replace # NoCtr
        THEN IF ~Managed(m0.counters, replace) THEN Raise(m0, "ValueError")
             ELSE
             Then(PosOf(m0.counters, replace), LAMBDA pos :
             Then([m0 EXCEPT !.ctr[replace].leave = FALSE], LAMBDA old :
             Then(Close(old, replace, FALSE), LAMBDA m1 :
                IF ~Ok(m1) THEN m1
                ELSE
                Then(m1.ctr[replace].pinned, LAMBDA wasPinned :
                Then([m1 EXCEPT !.counters = SetPos(@, new, pos),
                                !.ctr[new].pinned = wasPinned,
                                !.toRefresh = toRefresh], LAMBDA m2 :
                Then(IF wasPinned THEN (pos :> new) @@ pinned ELSE pinned,
                     LAMBDA pinned2 : Relayout(m2, pinned2, new, status)))))))
        ELSE IF position # NoPos
        THEN IF position < 1 THEN Raise(m0, "ValueError")
             ELSE IF position \in DOMAIN pinned THEN Raise(m0, "ValueError")
             ELSE IF position > m0.height THEN Raise(m0, "ValueError")
             ELSE Then([m0 EXCEPT !.ctr[new].pinned = TRUE,
                                  !.counters = SetPos(@, new, position),
                                  !.toRefresh = toRefresh], LAMBDA m1 :
                  Then((position :> new) @@ pinned, LAMBDA pinned1 :
                  Relayout(m1, pinned1, new, status)))
        ELSE Then([m0 EXCEPT !.counters = SetPos(@, new, 0),
                             !.toRefresh = toRefresh], LAMBDA m1 :
             Relayout(m1, pinned, new, status)))))

\* StageResize handling the resize at once in threaded mode too
StageResizeNow(m) ==
    Then([m EXCEPT !.resize = TRUE], LAMBDA m1 : ResizeHandler(m1))

\* Manager._stage_resize(): the SIGWINCH handler
StageResize(m) ==
    Then([m EXCEPT !.resize = TRUE], LAMBDA m1 :
        IF threaded
            THEN [m1 EXCEPT !.zeroed = {m1.counters[i].id : i \in 1..Len(m1.counters)}]
            ELSE ResizeHandler(m1))

\* AtExit without the test of process_exit
AtExitAlways(m) ==
    Then([m EXCEPT !.buffer = @ \o (IF set_scroll
                                        THEN <<NormalCursor, Csr(0, m.height - 1)>>
                                        ELSE <<>>)
                                \o <<Move(m.termH), LineFeeds(1)>>], LAMBDA m1 :
    Then(FlushManager(m1), LAMBDA m2 :
    IF m2.exc = "ValueError" THEN [m2 EXCEPT !.exc = "none"] ELSE m2))

\* Manager._at_exit(): a ValueError of the flush is swallowed
AtExit(m) ==
    IF ~m.process_exit THEN m
    ELSE
    Then([m EXCEPT !.buffer = @ \o (IF set_scroll
                                        THEN <<NormalCursor, Csr(0, m.height - 1)>>
                                        ELSE <<>>)
                                \o <<Move(m.termH), LineFeeds(1)>>], LAMBDA m1 :
    Then(FlushManager(m1), LAMBDA m2 :
    IF m2.exc = "ValueError" THEN [m2 EXCEPT !.exc = "none"] ELSE m2))

RECURSIVE StopLoop(_, _)

\* StopLoop clearing the occupied rows as well
StopLoopAll(m, num) ==
    IF num < 1 THEN m
    ELSE Then([m EXCEPT !.buffer = @ \o <<Move(m.termH - num), ClearEol>>], LAMBDA m1 :
         Then(num - 1, LAMBDA next : StopLoop(m1, next)))

\* for num in range(self.scroll_offset - 1, 0, -1): ..., from num downwards
StopLoop(m, num) ==
    IF num < 1 THEN m
    ELSE Then(IF num \notin Values(m.counters)
                THEN [m EXCEPT !.buffer = @ \o <<Move(m.termH - num), ClearEol>>]
                ELSE m, LAMBDA m1 :
         Then(num - 1, LAMBDA next : StopLoop(m1, next)))

\* for counter in self.counters: counter.enabled = False
DisableCounters(m) ==
    [m EXCEPT !.ctr = [c \in Ids |-> IF Managed(m.counters, c)
                                        THEN [m.ctr[c] EXCEPT !.enabled = FALSE]
                                        ELSE m.ctr[c]]]

\* StopManager leaving the manager enabled
StopManagerStaysEnabled(m) ==
    IF ~m.enabled THEN m
    ELSE
    Then(StopLoop(m, m.scroll_offset - 1), LAMBDA m1 :
    Then([m1 EXCEPT !.buffer = @ \o (IF set_scroll
                                        THEN <<NormalCursor, Csr(0, m1.height - 1)>>
                                        ELSE <<>>)
                                 \o <<Move(m1.termH)>>,
                    !.process_exit = FALSE], LAMBDA m2 :
    Then(DisableCounters(m2), LAMBDA m3 :
    Then(IF 1 \in Values(m3.counters)
            THEN [m3 EXCEPT !.buffer = Append(@, LineFeeds(1))]
            ELSE m3, LAMBDA m4 :
    FlushManager(m4)))))

\* Manager.stop()
StopManager(m) ==
    IF ~m.enabled THEN m
    ELSE
    Then(StopLoop(m, m.scroll_offset - 1), LAMBDA m1 :
    Then([m1 EXCEPT !.buffer = @ \o (IF set_scroll
                                        THEN <<NormalCursor, Csr(0, m1.height - 1)>>
                                        ELSE <<>>)
                                 \o <<Move(m1.termH)>>,
                    !.cbuffer = IF set_scroll /\ companion
                                    THEN @ \o <<NormalCursor, Csr(0, m1.height - 1),
                                                Move(m1.termH)>>
                                    ELSE @,
                    !.process_exit = FALSE,
                    !.enabled = FALSE], LAMBDA m2 :
    Then(DisableCounters(m2), LAMBDA m3 :
    Then(IF 1 \in Values(m3.counters)
            THEN [m3 EXCEPT !.buffer = Append(@, LineFeeds(1))]
            ELSE m3, LAMBDA m4 :
    FlushManager(m4)))))

\* for num in range(max(positions), 0, -1): ..., from num downwards
RECURSIVE StopLoopNotebook(_, _)
StopLoopNotebook(m, num) ==
    IF ~Ok(m) \/ num < 1 THEN m
    ELSE Then(IF num \in Values(m.counters) THEN m
              ELSE IF num > Len(m.output) THEN Raise(m, "IndexError")
              ELSE [m EXCEPT !.output[num] = Blank], LAMBDA m1 :
         Then(num - 1, LAMBDA next : StopLoopNotebook(m1, next)))

\* NotebookManager.stop()
StopNotebook(m) ==
    IF ~m.enabled THEN m
    ELSE IF m.counters = <<>> THEN Raise(m, "ValueError")
    ELSE
    Then(StopLoopNotebook(m, SetMax(Values(m.counters))), LAMBDA m1 :
        IF ~Ok(m1) THEN m1
        ELSE Then(DisableCounters(m1), LAMBDA m2 : FlushNotebook(m2)))

\* manager.stop()
Stop(m) ==
    IF cls = "Manager" THEN StopManager(m) ELSE StopNotebook(m)

\* ------------------------------------------------------------- the counts
\* sum(subcounter.count for subcounter in self._subcounters)
RECURSIVE SumSeq(_)
SumSeq(q) == IF q = <<>> THEN 0 ELSE Head(q) + SumSeq(Tail(q))

\* Counter.subcount
Subcount(m, c) == SumSeq(m.ctr[c].subcounters)

\* UpdateCounter without the test of count against total
UpdateCounterIgnoresTotal(m, c, incr, force) ==
    Then([m EXCEPT !.ctr[c].count = @ + incr], LAMBDA m1 :
    IF m1.ctr[c].enabled /\ (force \/ Due(m1, c))
        THEN Refresh(m1, c, TRUE)
        ELSE m1)

\* Counter.update(incr, force); total is the empty set when it is None
UpdateCounter(m, c, incr, force) ==
    Then([m EXCEPT !.ctr[c].count = @ + incr], LAMBDA m1 :
    IF m1.ctr[c].enabled /\ (force \/ m1.ctr[c].count \in m1.ctr[c].total \/ Due(m1, c))
        THEN Refresh(m1, c, TRUE)
        ELSE m1)

\* Counter.add_subcounter(color, count): SubCounter.__init__ validates count
AddSubcounter(m, c, count) ==
    IF m.ctr[c].count - Subcount(m, c) - count < 0 THEN Raise(m, "ValueError")
    ELSE [m EXCEPT !.ctr[c].subcounters = Append(@, count)]

\* SubCounter.update(incr, force) of the i-th subcounter of c
UpdateSubCounter(m, c, i, incr, d) ==
    Then([m EXCEPT !.ctr[c].subcounters[i] = @ + incr], LAMBDA m1 :
    UpdateCounter(m1, c, incr, d))

\* UpdateFrom taking the amount from the count of the parent as well
UpdateFromDebitsParent(m, c, i, source, incr, d) ==
    LET isParent == source.kind = "counter" /\ source.c = c
        isPeer == source.kind = "subcounter" /\ source.c = c
        sourceCount == IF isParent THEN m.ctr[c].count
                       ELSE m.ctr[c].subcounters[source.i]
    IN  IF ~(isParent \/ isPeer) THEN Raise(m, "ValueError")
        ELSE IF m.ctr[c].subcounters[i] + incr < 0 \/ sourceCount - incr < 0
            THEN Raise(m, "ValueError")
        ELSE IF isParent /\ m.ctr[c].count - Subcount(m, c) - incr < 0
            THEN Raise(m, "ValueError")
        ELSE
        Then(IF isPeer THEN [m EXCEPT !.ctr[c].subcounters[source.i] = @ - incr]
                       ELSE [m EXCEPT !.ctr[c].count = @ - incr], LAMBDA m1 :
        Then([m1 EXCEPT !.ctr[c].subcounters[i] = @ + incr], LAMBDA m2 :
        UpdateCounter(m2, c, 0, d)))

\* SubCounter.update_from(source, incr, force) of the i-th subcounter of c
UpdateFrom(m, c, i, source, incr, d) ==
    LET isParent == source.kind = "counter" /\ source.c = c
        isPeer == source.kind = "subcounter" /\ source.c = c
        sourceCount == IF isParent THEN m.ctr[c].count
                       ELSE m.ctr[c].subcounters[source.i]
    IN  IF ~(isParent \/ isPeer) THEN Raise(m, "ValueError")
        ELSE IF m.ctr[c].subcounters[i] + incr < 0 \/ sourceCount - incr < 0
            THEN Raise(m, "ValueError")
        ELSE IF isParent /\ m.ctr[c].count - Subcount(m, c) - incr < 0
            THEN Raise(m, "ValueError")
        ELSE
        Then(IF isPeer THEN [m EXCEPT !.ctr[c].subcounters[source.i] = @ - incr]
                       ELSE m, LAMBDA m1 :
        Then([m1 EXCEPT !.ctr[c].subcounters[i] = @ + incr], LAMBDA m2 :
        UpdateCounter(m2, c, 0, d)))

\* ----------------------------------------------------------- the operations
\* A widget that has not been constructed yet; held: the caller has a reference
NoWidget == [pinned |-> FALSE, leave |-> TRUE, enabled |-> TRUE, closed |-> FALSE,
             held |-> FALSE, count |-> 0, subcounters |-> <<>>, total |-> {}]

\* The counter an update_from() call takes from: a Counter c, or the i-th
\* subcounter of the Counter c
FromCounter(c) == [kind |-> "counter", c |-> c, i |-> 0]
FromSubCounter(c, i) == [kind |-> "subcounter", c |-> c, i |-> i]
NoSource == [kind |-> "none", c |-> NoCtr, i |-> 0]

Op(name, c, position, replace, flag, exc) ==
    [op |-> name, id |-> c, pos |-> position, replace |-> replace, flag |-> flag,
     raised |-> exc, sub |-> 0, source |-> NoSource, incr |-> 0, due |-> FALSE,
     refreshed |-> FALSE, result |-> <<>>]

\* A call on the counts: of Counter c, or of its i-th subcounter when i > 0
CountOp(name, c, i, source, incr, d, exc) ==
    [Op(name, c, NoPos, NoCtr, d, exc) EXCEPT !.sub = i, !.source = source,
                                              !.incr = incr]

\* The manager an operation leaves, from the record it computed
UnpackFields(r, op) ==
    /\ enabled' = r.enabled
    /\ counters' = r.counters
    /\ autorefresh' = r.autorefresh
    /\ buffer' = r.buffer
    /\ cbuffer' = r.cbuffer
    /\ output' = r.output
    /\ height' = r.height
    /\ termH' = r.termH
    /\ realH' = r.realH
    /\ scroll_offset' = r.scroll_offset
    /\ process_exit' = r.process_exit
    /\ registered' = r.registered
    /\ refresh_lock' = r.refresh_lock
    /\ resize' = r.resize
    /\ resize_lock' = r.resize_lock
    /\ ctr' = r.ctr
    /\ written' = r.written
    /\ cwritten' = r.cwritten
    /\ calls' = r.calls
    /\ cache' = <<<<r.termH, realW>>>>
    /\ lastOp' = op
    /\ UNCHANGED <<cls, threaded, set_scroll, companion, enabled_default, stream_closed,
                   limit, sigwinch, mgrs, realW>>

\* The state an operation leaves when it runs from its call to its return
Unpack(r, op) ==
    /\ UnpackFields(r, op)
    /\ UNCHANGED <<stacks, quiet>>

Held == {c \in Ids : ctr[c].held}

CanCall == Len(buffer) <= MaxBuf

\* manager.counter(position, autorefresh, leave) / manager.status_bar(...)
AddCounter(status, position, auto, leave, d) ==
    /\ CanCall
    /\ nextId <= limit
    /\ \E m \in {Pack(d)} :
       \E r \in {IF cls = "Manager"
                    THEN AddCounterManager(m, nextId, status, position, auto, leave)
                    ELSE AddCounterBase(m, nextId, status, position, auto, leave, NoCtr)} :
       \E r1 \in {IF Ok(r) THEN [r EXCEPT !.ctr[nextId].held = TRUE] ELSE r} :
            Unpack(r1, Op("add", nextId, position, NoCtr, auto, r.exc))
    /\ nextId' = nextId + 1

\* manager.counter(replace=old, ...) / manager.status_bar(replace=old, ...):
\* the terminal Manager of _manager.py takes no replace argument
ReplaceCounter(status, old, auto, leave, d) ==
    /\ CanCall
    /\ cls = "NotebookManager"
    /\ nextId <= limit
    /\ old \in Held
    /\ \E m \in {Pack(d)} :
       \E r \in {AddCounterBase(m, nextId, status, NoPos, auto, leave, old)} :
       \E r1 \in {IF Ok(r) THEN [r EXCEPT !.ctr[nextId].held = TRUE] ELSE r} :
            Unpack(r1, Op("add", nextId, NoPos, old, auto, r.exc))
    /\ nextId' = nextId + 1

\* widget.close(clear)
CloseWidget(c, clear, d) ==
    /\ CanCall
    /\ c \in Held
    /\ \E m \in {Pack(d)} : \E r \in {Close(m, c, clear)} :
            Unpack(r, Op("close", c, NoPos, NoCtr, clear, r.exc))
    /\ UNCHANGED nextId

\* manager.remove(widget)
RemoveWidget(c) ==
    /\ c \in Held
    /\ \E m \in {Pack(FALSE)} : \E r \in {Remove(m, c)} :
            Unpack(r, Op("remove", c, NoPos, NoCtr, Managed(counters, c), r.exc))
    /\ UNCHANGED nextId

\* widget.refresh()
RefreshWidget(c, d) ==
    /\ CanCall
    /\ c \in Held
    /\ \E m \in {Pack(d)} : \E r \in {Refresh(m, c, TRUE)} :
            Unpack(r, Op("refresh", c, NoPos, NoCtr, FALSE, r.exc))
    /\ UNCHANGED nextId

\* manager.write(output, flush, counter=c): output is c's text, c may be None
WriteCall(c, flush, d) ==
    /\ CanCall
    /\ c \in Held \cup {NoCtr}
    /\ \E m \in {Pack(d)} : \E r \in {Write(m, c, TRUE, flush)} :
            Unpack(r, Op("write", c, NoPos, NoCtr, flush, r.exc))
    /\ UNCHANGED nextId

\* manager.stop()
StopCall ==
    /\ CanCall
    /\ \E m \in {Pack(FALSE)} : \E r \in {Stop(m)} :
            Unpack(r, Op("stop", NoCtr, NoPos, NoCtr, enabled, r.exc))
    /\ UNCHANGED nextId

\* The exit handler registered with atexit is run
AtExitCall ==
    /\ CanCall
    /\ cls = "Manager"
    /\ registered > 0
    /\ \E m \in {Pack(FALSE)} : \E r \in {AtExit(m)} :
            Unpack(r, Op("at_exit", NoCtr, NoPos, NoCtr, process_exit, r.exc))
    /\ UNCHANGED nextId

\* The stream of the manager is closed by its owner
CloseStream ==
    /\ ~stream_closed
    /\ stream_closed' = TRUE
    /\ written' = <<>>
    /\ cwritten' = <<>>
    /\ calls' = <<>>
    /\ lastOp' = Op("close_stream", NoCtr, NoPos, NoCtr, FALSE, "none")
    /\ UNCHANGED <<cls, threaded, set_scroll, companion, realH, termH, enabled,
                   enabled_default, counters, autorefresh, buffer, cbuffer, output,
                   height, scroll_offset, process_exit, registered, refresh_lock,
                   resize, resize_lock, ctr, nextId, limit, stacks, quiet, sigwinch,
                   mgrs, realW, cache>>

\* the subcounters of the widgets the caller holds, and all it can take from
SubCounters == {<<c, i>> \in Held \X (1..MaxSubCounters) : i <= Len(ctr[c].subcounters)}
Sources == {FromCounter(c) : c \in Held}
                \cup {FromSubCounter(x[1], x[2]) : x \in SubCounters}
AllSources == {FromCounter(c) : c \in Ids}
                \cup {FromSubCounter(c, i) : c \in Ids, i \in 1..MaxSubCounters}
Increments == (-MaxIncr..MaxIncr) \ {0}
Counts == -MaxCount..MaxCount

\* counter.update(incr, force), min_delta seconds after last_update when d
UpdateCall(c, incr, force, d) ==
    /\ CanCall
    /\ c \in Held
    /\ ctr[c].count + incr \in Counts
    /\ \E m \in {Pack(d)} : \E r \in {UpdateCounter(m, c, incr, force)} :
            Unpack(r, [CountOp("update", c, 0, NoSource, incr, force, r.exc)
                            EXCEPT !.due = d, !.refreshed = c \in r.fresh])
    /\ UNCHANGED nextId

\* counter.total = t
AssignTotal(c, t) ==
    /\ c \in Held
    /\ ctr[c].total # {t}
    /\ ctr' = [ctr EXCEPT ![c].total = {t}]
    /\ written' = <<>>
    /\ cwritten' = <<>>
    /\ calls' = <<>>
    /\ lastOp' = CountOp("total", c, 0, NoSource, t, FALSE, "none")
    /\ UNCHANGED <<cls, threaded, set_scroll, companion, realH, termH, enabled,
                   enabled_default, counters, autorefresh, buffer, cbuffer, output,
                   height, scroll_offset, process_exit, registered, stream_closed,
                   refresh_lock, resize, resize_lock, nextId, limit, stacks, quiet,
                   sigwinch, mgrs, realW, cache>>

\* counter.add_subcounter(color, count)
AddSubcounterCall(c, count) ==
    /\ c \in Held
    /\ Cardinality(SubCounters) < MaxSubCounters
    /\ \E m \in {Pack(FALSE)} : \E r \in {AddSubcounter(m, c, count)} :
            Unpack(r, CountOp("add_subcounter", c, 0, NoSource, count, FALSE, r.exc))
    /\ UNCHANGED nextId

\* subcounter.update(incr), for the i-th subcounter of c
SubUpdateCall(c, i, incr, d) ==
    /\ CanCall
    /\ <<c, i>> \in SubCounters
    /\ ctr[c].count + incr \in Counts
    /\ ctr[c].subcounters[i] + incr \in Counts
    /\ \E m \in {Pack(d)} : \E r \in {UpdateSubCounter(m, c, i, incr, d)} :
            Unpack(r, CountOp("sub_update", c, i, NoSource, incr, d, r.exc))
    /\ UNCHANGED nextId

\* subcounter.update_from(source, incr), for the i-th subcounter of c
UpdateFromCall(c, i, source, incr, d) ==
    /\ CanCall
    /\ <<c, i>> \in SubCounters
    /\ source \in Sources
    /\ ctr[c].subcounters[i] + incr \in Counts
    /\ source.kind = "subcounter" =>
            ctr[source.c].subcounters[source.i] - incr \in Counts
    /\ \E m \in {Pack(d)} : \E r \in {UpdateFrom(m, c, i, source, incr, d)} :
            Unpack(r, CountOp("update_from", c, i, source, incr, d, r.exc))
    /\ UNCHANGED nextId

\* HeightAndWidth probing the real terminal at every query
HeightAndWidthProbes(held, real) == <<real>>

\* Terminal._height_and_width(): the new cache; real is what the probe of the
\* real terminal, blessed's _height_and_width(), returns now
HeightAndWidth(held, real) == IF held # <<>> THEN held ELSE <<real>>

\* term.height / term.width: both read _height_and_width()
QueryTerminal ==
    /\ cache' = HeightAndWidth(cache, <<realH, realW>>)
    /\ termH' = cache'[1][1]
    /\ lastOp' = [Op("height_and_width", NoCtr, NoPos, NoCtr, cache = <<>>, "none")
                        EXCEPT !.result = cache'[1]]
    /\ written' = <<>>
    /\ cwritten' = <<>>
    /\ calls' = <<>>
    /\ UNCHANGED <<cls, threaded, set_scroll, companion, realH, enabled,
                   enabled_default, counters, autorefresh, buffer, cbuffer, output,
                   height, scroll_offset, process_exit, registered, stream_closed,
                   refresh_lock, resize, resize_lock, ctr, nextId, limit, stacks,
                   quiet, sigwinch, mgrs, realW>>

\* term.clear_cache()
ClearCache ==
    /\ cache' = <<>>
    /\ lastOp' = Op("clear_cache", NoCtr, NoPos, NoCtr, cache = <<>>, "none")
    /\ written' = <<>>
    /\ cwritten' = <<>>
    /\ calls' = <<>>
    /\ UNCHANGED <<cls, threaded, set_scroll, companion, realH, termH, enabled,
                   enabled_default, counters, autorefresh, buffer, cbuffer, output,
                   height, scroll_offset, process_exit, registered, stream_closed,
                   refresh_lock, resize, resize_lock, ctr, nextId, limit, stacks,
                   quiet, sigwinch, mgrs, realW>>

\* The real terminal takes h rows and w columns; no signal is delivered
TerminalResized(h, w) ==
    /\ <<h, w>> # <<realH, realW>>
    /\ realH' = h
    /\ realW' = w
    /\ lastOp' = [Op("resized", NoCtr, NoPos, NoCtr, FALSE, "none")
                        EXCEPT !.result = <<h, w>>]
    /\ written' = <<>>
    /\ cwritten' = <<>>
    /\ calls' = <<>>
    /\ UNCHANGED <<cls, threaded, set_scroll, companion, termH, enabled,
                   enabled_default, counters, autorefresh, buffer, cbuffer, output,
                   height, scroll_offset, process_exit, registered, stream_closed,
                   refresh_lock, resize, resize_lock, ctr, nextId, limit, stacks,
                   quiet, sigwinch, mgrs, cache>>

\* manager._flush_streams(), called on its own
FlushCall ==
    /\ \E m \in {Pack(FALSE)} : \E r \in {FlushStreams(m)} :
            Unpack(r, Op("flush", NoCtr, NoPos, NoCtr, FALSE, r.exc))
    /\ UNCHANGED nextId

\* manager._companion_buffer = [msg]: a message is put in the companion buffer
\* from outside the manager (test_flush_companion_buffer)
AssignCompanionBuffer ==
    /\ cbuffer # <<Text(NoCtr)>>
    /\ cbuffer' = <<Text(NoCtr)>>
    /\ written' = <<>>
    /\ cwritten' = <<>>
    /\ calls' = <<>>
    /\ lastOp' = Op("assign", NoCtr, NoPos, NoCtr, FALSE, "none")
    /\ UNCHANGED <<cls, threaded, set_scroll, companion, realH, termH, enabled,
                   enabled_default, counters, autorefresh, buffer, output,
                   height, scroll_offset, process_exit, registered, stream_closed,
                   refresh_lock, resize, resize_lock, ctr, nextId, limit, stacks,
                   quiet, sigwinch, mgrs, realW, cache>>

\* SetScrollAreaCall that stages nothing for the companion stream
SetScrollAreaCallPrimaryOnly(force) ==
    /\ buffer = <<>>
    /\ cbuffer = <<>>
    /\ cls = "Manager"
    /\ \E m \in {Pack(FALSE)} :
       \E r \in {[SetScrollAreaManager(m, force) EXCEPT !.cbuffer = m.cbuffer]} :
            Unpack(r, Op("set_scroll_area", NoCtr, NoPos, NoCtr, force, r.exc))
    /\ UNCHANGED nextId

\* manager._set_scroll_area(force), called on its own with nothing staged
\* (test_set_scroll_area)
SetScrollAreaCall(force) ==
    /\ buffer = <<>>
    /\ cbuffer = <<>>
    /\ cls = "Manager"
    /\ \E m \in {Pack(FALSE)} : \E r \in {SetScrollAreaManager(m, force)} :
            Unpack(r, Op("set_scroll_area", NoCtr, NoPos, NoCtr, force, r.exc))
    /\ UNCHANGED nextId

\* manager.counters[c] = p: the offset of the only entry of the row table is
\* set from outside the manager (test_set_scroll_area)
AssignOffset(c, p) ==
    /\ Len(counters) = 1
    /\ counters[1].id = c
    /\ counters[1].pos # p
    /\ counters' = SetPos(counters, c, p)
    /\ written' = <<>>
    /\ cwritten' = <<>>
    /\ calls' = <<>>
    /\ lastOp' = Op("assign_offset", c, p, NoCtr, FALSE, "none")
    /\ UNCHANGED <<cls, threaded, set_scroll, companion, realH, termH, enabled,
                   enabled_default, autorefresh, buffer, cbuffer, output,
                   height, scroll_offset, process_exit, registered, stream_closed,
                   refresh_lock, resize, resize_lock, ctr, nextId, limit, stacks,
                   quiet, sigwinch, mgrs, realW, cache>>

\* The terminal is resized to h rows; SIGWINCH is delivered to _stage_resize
\* once _set_scroll_area has installed it (_manager.py:342-346)
ResizeSignal(h) ==
    /\ CanCall
    /\ h # realH
    /\ \E m \in {[Pack(FALSE) EXCEPT !.realH = h]} :
       \E r \in {IF cls = "Manager" /\ process_exit THEN StageResize(m) ELSE m} :
            Unpack(r, Op("resize", NoCtr, NoPos, NoCtr, FALSE, r.exc))
    /\ UNCHANGED nextId

\* ------------------------------------------- the operations, step by step
\* write(), _stage_resize() and _resize_handler() of the terminal Manager as the
\* interpreter runs them: a signal handler runs on the main thread between
\* any two steps of the call in progress there, and the threads take turns
\* between any two steps.  A call in progress is a record of its function, the
\* step it is at, the widget it writes and whether it overlaps a signal or
\* another call (late): a signal came after it started, or a call was in
\* progress when it started.
Call(fn, pc, c) == [fn |-> fn, pc |-> pc, c |-> c, late |-> FALSE]

Idle == \A t \in Threads : stacks[t] = <<>>

Running(t, fn, pc) ==
    /\ stacks[t] # <<>>
    /\ stacks[t][Len(stacks[t])].fn = fn
    /\ stacks[t][Len(stacks[t])].pc = pc

Innermost(t) == stacks[t][Len(stacks[t])]

\* the stack of t with its innermost call at step pc
AtStep(t, pc) == [stacks[t] EXCEPT ![Len(stacks[t])].pc = pc]

\* the stack of t once its innermost call has returned
Returned(t) == SubSeq(stacks[t], 1, Len(stacks[t]) - 1)

\* what a step that touches neither the buffers nor the row table leaves alone
ManagerKept ==
    UNCHANGED <<cls, threaded, set_scroll, companion, termH, enabled, enabled_default,
                counters, autorefresh, buffer, cbuffer, output, height, scroll_offset,
                process_exit, registered, stream_closed, refresh_lock, ctr, nextId,
                written, cwritten, lastOp, limit, sigwinch, mgrs, calls, realW,
                cache>>

\* a thread that is in no call calls manager.write(output, counter=c)
BeginWrite(t, c) ==
    /\ CanCall
    /\ cls = "Manager"
    /\ stacks[t] = <<>>
    /\ t = "worker" => threaded
    /\ c \in Held
    /\ stacks' = [stacks EXCEPT ![t] = <<[Call("write", "test", c) EXCEPT !.late = ~Idle]>>]
    /\ ManagerKept
    /\ UNCHANGED <<realH, resize, resize_lock, quiet>>

\* write(): `if self._resize and not self.resize_lock` (_manager.py:511); when
\* the test fails the rest of write() follows
WriteTest(t) ==
    /\ Running(t, "write", "test")
    /\ IF resize /\ ~resize_lock
          THEN /\ stacks' = [stacks EXCEPT ![t] =
                        Append(AtStep(t, "finally"), Call("handler", "check", NoCtr))]
               /\ ManagerKept
               /\ UNCHANGED <<realH, resize, resize_lock, quiet>>
          ELSE /\ \E m \in {Pack(FALSE)} :
                  \E r \in {WriteManager(m, Innermost(t).c, TRUE, TRUE)} :
                        UnpackFields(r, Op("write", Innermost(t).c, NoPos, NoCtr, TRUE, r.exc))
               /\ stacks' = [stacks EXCEPT ![t] = Returned(t)]
               /\ quiet' = (quiet \/ ~Innermost(t).late)
               /\ UNCHANGED nextId

\* write(): `finally: self._resize = False`, `return` (_manager.py:514-517)
WriteFinally(t) ==
    /\ Running(t, "write", "finally")
    /\ resize' = FALSE
    /\ stacks' = [stacks EXCEPT ![t] = Returned(t)]
    /\ quiet' = (quiet \/ ~Innermost(t).late)
    /\ ManagerKept
    /\ UNCHANGED <<realH, resize_lock>>

\* The terminal is resized to h rows and SIGWINCH is delivered: the main
\* thread enters _stage_resize before the next step of the call in progress
Signal(h) ==
    /\ cls = "Manager"
    /\ process_exit
    /\ h # realH
    /\ Len(stacks["main"]) <= MaxDepth - 2
    /\ realH' = h
    /\ stacks' = [t \in Threads |->
                    LET marked == [i \in 1..Len(stacks[t]) |->
                                        [stacks[t][i] EXCEPT !.late = TRUE]]
                    IN  IF t = "main"
                            THEN Append(marked, Call("stage", "flag", NoCtr))
                            ELSE marked]
    /\ quiet' = FALSE
    /\ ManagerKept
    /\ UNCHANGED <<resize, resize_lock>>

\* _stage_resize(): `self._resize = True`, then the test of self.threaded
\* (_manager.py:271-280)
StageFlag ==
    /\ Running("main", "stage", "flag")
    /\ resize' = TRUE
    /\ stacks' = [stacks EXCEPT !["main"] =
                    IF threaded THEN Returned("main")
                    ELSE Append(AtStep("main", "return"), Call("handler", "check", NoCtr))]
    /\ ManagerKept
    /\ UNCHANGED <<realH, resize_lock, quiet>>

\* _stage_resize() returns to the call it interrupted
StageReturn ==
    /\ Running("main", "stage", "return")
    /\ stacks' = [stacks EXCEPT !["main"] = Returned("main")]
    /\ ManagerKept
    /\ UNCHANGED <<realH, resize, resize_lock, quiet>>

\* _resize_handler(): `assert self.resize_lock` (_manager.py:291)
HandlerCheck(t) ==
    /\ Running(t, "handler", "check")
    /\ stacks' = [stacks EXCEPT ![t] = IF resize_lock THEN Returned(t)
                                                        ELSE AtStep(t, "lock")]
    /\ ManagerKept
    /\ UNCHANGED <<realH, resize, resize_lock, quiet>>

\* _resize_handler(): `self.resize_lock = True` (_manager.py:294)
HandlerLock(t) ==
    /\ Running(t, "handler", "lock")
    /\ resize_lock' = TRUE
    /\ stacks' = [stacks EXCEPT ![t] = AtStep(t, "body")]
    /\ ManagerKept
    /\ UNCHANGED <<realH, resize, quiet>>

\* _resize_handler(): the size is read and the pass is drawn and flushed
\* (_manager.py:295-317); an exception leaves the handler with the lock set
HandlerBody(t) ==
    /\ Running(t, "handler", "body")
    /\ \E m \in {Pack(FALSE)} : \E r \in {ResizeBody(m)} :
            /\ UnpackFields(r, Op("resize_pass", NoCtr, NoPos, NoCtr, FALSE, r.exc))
            /\ stacks' = [stacks EXCEPT ![t] = IF Ok(r) THEN AtStep(t, "unlock")
                                                          ELSE Returned(t)]
    /\ UNCHANGED <<nextId, quiet>>

\* _resize_handler(): `self.resize_lock = False` (_manager.py:319)
HandlerUnlock(t) ==
    /\ Running(t, "handler", "unlock")
    /\ resize_lock' = FALSE
    /\ stacks' = [stacks EXCEPT ![t] = Returned(t)]
    /\ ManagerKept
    /\ UNCHANGED <<realH, resize, quiet>>

\* manager.counter() while no other call is in progress
AddWhenIdle ==
    /\ Idle
    /\ AddCounter(FALSE, NoPos, FALSE, TRUE, FALSE)

\* ------------------------------------------- several managers, one process
\* The fields of a terminal Manager that take part in the handling of SIGWINCH:
\* made (the constructor has run), enabled, process_exit, sigwinch_orig, _resize
NoManager == [made |-> FALSE, enabled |-> FALSE, process_exit |-> FALSE,
              sigwinch_orig |-> SigDefault, resize |-> FALSE]

\* what the operations of one of several managers leave alone
OneManagerKept ==
    UNCHANGED <<cls, threaded, set_scroll, companion, realH, termH, enabled,
                enabled_default, counters, autorefresh, buffer, cbuffer, output,
                height, scroll_offset, process_exit, registered, stream_closed,
                refresh_lock, resize, resize_lock, ctr, nextId, written, cwritten,
                limit, stacks, quiet, calls, realW, cache>>

\* Manager(stream=..., enabled=e): sigwinch_orig = signal.getsignal(SIGWINCH)
\* (_manager.py:72-73, 112-113)
NewManager(i, e) ==
    /\ ~mgrs[i].made
    /\ mgrs' = [mgrs EXCEPT ![i] = [NoManager EXCEPT !.made = TRUE, !.enabled = e,
                                                      !.sigwinch_orig = sigwinch]]
    /\ lastOp' = Op("new", i, NoPos, NoCtr, e, "none")
    /\ UNCHANGED sigwinch
    /\ OneManagerKept

\* manager i gets a widget: _set_scroll_area() installs its handler the first
\* time (_manager.py:338-346)
FirstLayout(i) ==
    /\ mgrs[i].made
    /\ mgrs[i].enabled
    /\ ~mgrs[i].process_exit
    /\ mgrs' = [mgrs EXCEPT ![i].process_exit = TRUE]
    /\ sigwinch' = i
    /\ lastOp' = Op("layout", i, NoPos, NoCtr, FALSE, "none")
    /\ OneManagerKept

\* SIGWINCH: the installed handler runs, _stage_resize of one manager
\* (_manager.py:271)
SigwinchDelivered ==
    /\ mgrs' = [i \in Managers |->
                    IF sigwinch = i THEN [mgrs[i] EXCEPT !.resize = TRUE] ELSE mgrs[i]]
    /\ lastOp' = Op("sigwinch", sigwinch, NoPos, NoCtr, FALSE, "none")
    /\ UNCHANGED sigwinch
    /\ OneManagerKept

\* manager i writes: a pending resize is handled (_manager.py:510-517)
WriteOneManager(i) ==
    /\ mgrs[i].made
    /\ mgrs[i].enabled
    /\ mgrs[i].process_exit
    /\ mgrs' = [mgrs EXCEPT ![i].resize = FALSE]
    /\ lastOp' = Op("write", i, NoPos, NoCtr, mgrs[i].resize, "none")
    /\ UNCHANGED sigwinch
    /\ OneManagerKept

\* manager i is stopped: signal.signal(SIGWINCH, self.sigwinch_orig)
\* (_manager.py:450-458, 479-480)
StopOneManager(i) ==
    /\ mgrs[i].made
    /\ mgrs[i].enabled
    /\ mgrs' = [mgrs EXCEPT ![i].process_exit = FALSE, ![i].enabled = FALSE]
    /\ sigwinch' = mgrs[i].sigwinch_orig
    /\ lastOp' = Op("stop", i, NoPos, NoCtr, mgrs[i].process_exit, "none")
    /\ OneManagerKept

\* The manager and its widgets right after the constructor
\* (_manager.py:66-115, _basemanager.py:48-79)
Constructed ==
    /\ termH = realH
    /\ height = realH
    /\ enabled_default = enabled
    /\ counters = <<>>
    /\ autorefresh = <<>>
    /\ buffer = <<>>
    /\ cbuffer = <<>>
    /\ output = <<>>
    /\ scroll_offset = 1
    /\ process_exit = FALSE
    /\ registered = 0
    /\ stream_closed = FALSE
    /\ refresh_lock = FALSE
    /\ resize = FALSE
    /\ resize_lock = FALSE
    /\ ctr = [c \in Ids |-> NoWidget]
    /\ nextId = 1
    /\ written = <<>>
    /\ cwritten = <<>>
    /\ calls = <<>>
    /\ realW = InitialWidth
    /\ cache = <<<<realH, realW>>>>
    /\ lastOp = Op("init", NoCtr, NoPos, NoCtr, FALSE, "none")
    /\ stacks = [t \in Threads |-> <<>>]
    /\ quiet = FALSE
    /\ sigwinch = SigDefault
    /\ mgrs = [i \in Managers |-> NoManager]

\* ------------------------------------------------------------ specification
\* Spec: the row table.  An enabled manager of either class on a terminal
\* that keeps its size; widgets are created with or without a position,
\* replaced, closed and removed.
Init ==
    /\ cls \in {"Manager", "NotebookManager"}
    /\ threaded = FALSE
    /\ set_scroll = TRUE
    /\ companion = FALSE
    /\ enabled = TRUE
    /\ realH = InitialHeight
    /\ limit = MaxWidgets
    /\ Constructed

Next ==
    \/ \E leave \in BOOLEAN : \E position \in {NoPos} \cup Positions :
            AddCounter(FALSE, position, FALSE, leave, FALSE)
    \/ \E leave \in BOOLEAN : \E old \in Ids :
            ReplaceCounter(FALSE, old, FALSE, leave, FALSE)
    \/ \E c \in Ids : \E clear \in BOOLEAN : CloseWidget(c, clear, FALSE)
    \/ \E c \in Ids : RemoveWidget(c)

Spec == Init /\ [][Next]_vars

\* SpecAuto: as Spec, with widgets that ask for auto-refresh, with refreshes,
\* and with operations that start before or after min_delta has elapsed.
InitAuto ==
    /\ cls \in {"Manager", "NotebookManager"}
    /\ threaded = FALSE
    /\ set_scroll = TRUE
    /\ companion = FALSE
    /\ enabled = TRUE
    /\ realH = InitialHeight
    /\ limit = MaxAutoWidgets
    /\ Constructed

NextAuto ==
    \/ \E leave \in BOOLEAN : \E auto \in BOOLEAN : \E d \in BOOLEAN :
       \E position \in {NoPos} \cup Positions :
            AddCounter(FALSE, position, auto, leave, d)
    \/ \E leave \in BOOLEAN : \E auto \in BOOLEAN : \E d \in BOOLEAN : \E old \in Ids :
            ReplaceCounter(FALSE, old, auto, leave, d)
    \/ \E c \in Ids : \E clear \in BOOLEAN : \E d \in BOOLEAN : CloseWidget(c, clear, d)
    \/ \E c \in Ids : RemoveWidget(c)
    \/ \E c \in Ids : \E d \in BOOLEAN : RefreshWidget(c, d)

SpecAuto == InitAuto /\ [][NextAuto]_vars

\* SpecResize: a manager on a terminal that changes its height, handling the
\* resize at once or at the next write (threaded).
InitResize ==
    /\ cls \in {"Manager", "NotebookManager"}
    /\ threaded \in BOOLEAN
    /\ set_scroll = TRUE
    /\ companion = FALSE
    /\ enabled = TRUE
    /\ realH \in Heights
    /\ limit = MaxWidgets
    /\ Constructed

NextResize ==
    \/ \E position \in {NoPos} \cup Positions :
            AddCounter(FALSE, position, FALSE, FALSE, FALSE)
    \/ \E old \in Ids : ReplaceCounter(FALSE, old, FALSE, FALSE, FALSE)
    \/ \E c \in Ids : CloseWidget(c, TRUE, FALSE)
    \/ \E c \in Ids : RemoveWidget(c)
    \/ \E h \in Heights : ResizeSignal(h)

SpecResize == InitResize /\ [][NextResize]_vars

\* SpecWrite: the terminal Manager written to directly and through its
\* widgets, some of them auto-refreshed, on a terminal that changes its height.
\* Pinned widgets are created without autorefresh.
InitWrite ==
    /\ cls = "Manager"
    /\ threaded \in BOOLEAN
    /\ set_scroll = TRUE
    /\ companion = FALSE
    /\ enabled = TRUE
    /\ realH \in Heights
    /\ limit = MaxAutoWidgets
    /\ Constructed

NextWrite ==
    \/ \E auto \in BOOLEAN : \E d \in BOOLEAN : AddCounter(FALSE, NoPos, auto, TRUE, d)
    \/ \E position \in 1..MaxPos : \E d \in BOOLEAN :
            AddCounter(FALSE, position, FALSE, TRUE, d)
    \/ \E c \in Ids \cup {NoCtr} : \E flush \in BOOLEAN : \E d \in BOOLEAN :
            WriteCall(c, flush, d)
    \/ \E c \in Ids : \E d \in BOOLEAN : RefreshWidget(c, d)
    \/ \E h \in Heights : ResizeSignal(h)

SpecWrite == InitWrite /\ [][NextWrite]_vars

\* SpecLife: the life of a manager of either class, constructed enabled or
\* disabled: widgets are created, written, closed, the manager is stopped, the
\* exit handler runs, and the stream may be closed under the manager.
InitLife ==
    /\ cls \in {"Manager", "NotebookManager"}
    /\ threaded = FALSE
    /\ set_scroll = TRUE
    /\ companion = FALSE
    /\ enabled \in BOOLEAN
    /\ realH = InitialHeight
    /\ limit = MaxAutoWidgets
    /\ Constructed

NextLife ==
    \/ \E leave \in BOOLEAN : \E position \in {NoPos} \cup Positions :
            AddCounter(FALSE, position, FALSE, leave, FALSE)
    \/ \E leave \in BOOLEAN : \E old \in Ids :
            ReplaceCounter(FALSE, old, FALSE, leave, FALSE)
    \/ \E c \in Ids : \E clear \in BOOLEAN : CloseWidget(c, clear, FALSE)
    \/ \E c \in Ids : RefreshWidget(c, FALSE)
    \/ \E c \in Ids \cup {NoCtr} : WriteCall(c, TRUE, FALSE)
    \/ StopCall
    \/ AtExitCall
    \/ CloseStream

SpecLife == InitLife /\ [][NextLife]_vars

\* SpecRace: the terminal Manager's resize handling step by step, with
\* signals that arrive between any two steps and, in threaded mode, a second
\* thread that writes.
InitRace ==
    /\ cls = "Manager"
    /\ threaded \in BOOLEAN
    /\ set_scroll = TRUE
    /\ companion = FALSE
    /\ enabled = TRUE
    /\ realH = InitialHeight
    /\ limit = MaxAutoWidgets
    /\ Constructed

NextRace ==
    \/ AddWhenIdle
    \/ \E t \in Threads : \E c \in Ids : BeginWrite(t, c)
    \/ \E t \in Threads : WriteTest(t)
    \/ \E t \in Threads : WriteFinally(t)
    \/ \E h \in Heights : Signal(h)
    \/ StageFlag
    \/ StageReturn
    \/ \E t \in Threads : HandlerCheck(t)
    \/ \E t \in Threads : HandlerLock(t)
    \/ \E t \in Threads : HandlerBody(t)
    \/ \E t \in Threads : HandlerUnlock(t)

SpecRace == InitRace /\ [][NextRace]_vars

\* SpecFlush: a terminal Manager with or without a companion stream; output
\* is staged with and without a flush, the streams are flushed on their own,
\* a message is put in the companion buffer, and the stream may be closed.
InitFlush ==
    /\ cls = "Manager"
    /\ threaded = FALSE
    /\ set_scroll = TRUE
    /\ companion \in BOOLEAN
    /\ enabled = TRUE
    /\ realH = InitialHeight
    /\ limit = MaxAutoWidgets
    /\ Constructed

NextFlush ==
    \/ \E leave \in BOOLEAN : AddCounter(FALSE, NoPos, FALSE, leave, FALSE)
    \/ \E c \in Ids : \E flush \in BOOLEAN : WriteCall(c, flush, FALSE)
    \/ FlushCall
    \/ AssignCompanionBuffer
    \/ StopCall
    \/ CloseStream

SpecFlush == InitFlush /\ [][NextFlush]_vars

\* SpecCompanion: a terminal Manager with a companion stream; widgets are
\* created, written without a flush, refreshed and closed, the terminal is
\* resized, and the manager is stopped.
InitCompanion ==
    /\ cls = "Manager"
    /\ threaded = FALSE
    /\ set_scroll = TRUE
    /\ companion = TRUE
    /\ enabled = TRUE
    /\ realH = InitialHeight
    /\ limit = MaxAutoWidgets
    /\ Constructed

NextCompanion ==
    \/ \E leave \in BOOLEAN : \E position \in {NoPos} \cup Positions :
            AddCounter(FALSE, position, FALSE, leave, FALSE)
    \/ \E c \in Ids : WriteCall(c, FALSE, FALSE)
    \/ \E c \in Ids : RefreshWidget(c, FALSE)
    \/ \E c \in Ids : \E clear \in BOOLEAN : CloseWidget(c, clear, FALSE)
    \/ \E h \in Heights : ResizeSignal(h)
    \/ FlushCall
    \/ StopCall
    \/ AtExitCall

SpecCompanion == InitCompanion /\ [][NextCompanion]_vars

\* SpecCount: the counts of the counters of a terminal Manager and of their
\* subcounters, under updates with increments of either sign and transfers;
\* the stream may be closed under the manager.
InitCount ==
    /\ cls = "Manager"
    /\ threaded = FALSE
    /\ set_scroll = TRUE
    /\ companion = FALSE
    /\ enabled = TRUE
    /\ realH = InitialHeight
    /\ limit = MaxAutoWidgets
    /\ Constructed

NextCount ==
    \/ AddCounter(FALSE, NoPos, FALSE, TRUE, FALSE)
    \/ \E c \in Ids : \E count \in 0..MaxIncr : AddSubcounterCall(c, count)
    \/ \E c \in Ids : \E incr \in Increments : \E d \in BOOLEAN : UpdateCall(c, incr, d, d)
    \/ \E c \in Ids : \E i \in 1..MaxSubCounters : \E incr \in Increments :
       \E d \in BOOLEAN : SubUpdateCall(c, i, incr, d)
    \/ \E c \in Ids : \E i \in 1..MaxSubCounters : \E incr \in Increments :
       \E d \in BOOLEAN : \E source \in AllSources : UpdateFromCall(c, i, source, incr, d)
    \/ CloseStream

SpecCount == InitCount /\ [][NextCount]_vars

\* SpecUpdate: counters of a terminal Manager constructed enabled or disabled,
\* with or without a total, updated with and without force, before and after
\* min_delta has elapsed; the manager is stopped, which disables the widgets.
InitUpdate ==
    /\ cls = "Manager"
    /\ threaded = FALSE
    /\ set_scroll = TRUE
    /\ companion = FALSE
    /\ enabled \in BOOLEAN
    /\ realH = InitialHeight
    /\ limit = MaxAutoWidgets
    /\ Constructed

NextUpdate ==
    \/ AddCounter(FALSE, NoPos, FALSE, TRUE, FALSE)
    \/ \E c \in Ids : \E t \in 0..MaxCount : AssignTotal(c, t)
    \/ \E c \in Ids : \E incr \in Increments : \E force \in BOOLEAN :
       \E d \in BOOLEAN : UpdateCall(c, incr, force, d)
    \/ StopCall

SpecUpdate == InitUpdate /\ [][NextUpdate]_vars

\* SpecTerminal: the Terminal of a manager: its size is queried, its cache is
\* cleared, and the real terminal changes its size.
InitTerminal ==
    /\ cls = "Manager"
    /\ threaded = FALSE
    /\ set_scroll = TRUE
    /\ companion = FALSE
    /\ enabled = TRUE
    /\ realH = InitialHeight
    /\ limit = MaxWidgets
    /\ Constructed

NextTerminal ==
    \/ QueryTerminal
    \/ ClearCache
    \/ \E h \in Heights : \E w \in Widths : TerminalResized(h, w)

SpecTerminal == InitTerminal /\ [][NextTerminal]_vars

\* SpecScroll: the scroll area of the terminal Manager, with or without a
\* companion stream, recomputed by the operations and on its own, with
\* offsets also set from outside.
InitScroll ==
    /\ cls = "Manager"
    /\ threaded = FALSE
    /\ set_scroll = TRUE
    /\ companion \in BOOLEAN
    /\ enabled = TRUE
    /\ realH \in Heights
    /\ limit = MaxWidgets
    /\ Constructed

NextScroll ==
    \/ \E position \in {NoPos} \cup Positions :
            AddCounter(FALSE, position, FALSE, FALSE, FALSE)
    \/ \E c \in Ids : CloseWidget(c, FALSE, FALSE)
    \/ \E c \in Ids : \E p \in 1..MaxPos : AssignOffset(c, p)
    \/ \E force \in BOOLEAN : SetScrollAreaCall(force)
    \/ FlushCall

SpecScroll == InitScroll /\ [][NextScroll]_vars

\* SpecTwo: the terminal Managers of one process, over different streams, and
\* the one SIGWINCH handler of the process.
InitTwo ==
    /\ cls = "Manager"
    /\ threaded = TRUE
    /\ set_scroll = TRUE
    /\ companion = FALSE
    /\ enabled = TRUE
    /\ realH = InitialHeight
    /\ limit = MaxWidgets
    /\ Constructed

NextTwo ==
    \/ \E i \in Managers : \E e \in BOOLEAN : NewManager(i, e)
    \/ \E i \in Managers : FirstLayout(i)
    \/ SigwinchDelivered
    \/ \E i \in Managers : WriteOneManager(i)
    \/ \E i \in Managers : StopOneManager(i)

SpecTwo == InitTwo /\ [][NextTwo]_vars

\* -------------------------------------------------------------- properties
\* The widgets in the row table, the pinned and the auto-placed ones
InTable == {counters[i].id : i \in 1..Len(counters)}
PinnedWidgets == {c \in InTable : ctr[c].pinned}
AutoWidgets == {c \in InTable : ~ctr[c].pinned}
Offset(c) == PosOf(counters, c)
PinnedOffsets == {Offset(c) : c \in PinnedWidgets}

\* the last operation was a counter()/status_bar() call that returned a widget
AddSucceeded == lastOp.op = "add" /\ lastOp.raised = "none"

\* C1: in every reachable state of the row table no two pinned widgets have
\* the same offset.
PinnedOffsetsUnique ==
    \A a, b \in PinnedWidgets : a # b => Offset(a) # Offset(b)

\* Two widgets are pinned and a pin request for an offset that one of them
\* holds has just been refused.
PinnedCollisionRefused ==
    /\ lastOp.op = "add"
    /\ lastOp.raised = "ValueError"
    /\ lastOp.pos \in PinnedOffsets
    /\ Cardinality(PinnedWidgets) = 2

\* C2: a pin request raises ValueError whenever p < 1 or p is greater than the
\* terminal height, and otherwise (p not already pinned) pins the new widget
\* at exactly offset p.
PinRequestValidated ==
    (lastOp.op = "add" /\ lastOp.replace = NoCtr /\ lastOp.pos # NoPos) =>
        IF lastOp.pos < 1 \/ lastOp.pos > height
            THEN lastOp.raised = "ValueError"
            ELSE lastOp.raised = "none" =>
                    /\ lastOp.id \in PinnedWidgets
                    /\ Offset(lastOp.id) = lastOp.pos

\* the k-th offset >= from that no pinned widget holds
RECURSIVE NthFree(_, _, _)
NthFree(P, k, from) ==
    IF from \in P THEN NthFree(P, k, from + 1)
    ELSE IF k = 1 THEN from
    ELSE NthFree(P, k - 1, from + 1)

\* 1 for the auto-placed widget added last, 2 for the one before it, ...
Recency(c) == 1 + Cardinality({b \in AutoWidgets : b > c})

\* C5: immediately after every successful counter()/status_bar() call the
\* auto-placed widgets occupy exactly the lowest offsets >= 1 that no pinned
\* widget holds, the newest at the lowest, the next newest at the next one.
AutoPackedNewestFirst ==
    AddSucceeded =>
        \A c \in AutoWidgets : Offset(c) = NthFree(PinnedOffsets, Recency(c), 1)

\* Two auto-placed widgets have just been packed around a pinned one.
AutoPackedAroundPinned ==
    /\ AddSucceeded
    /\ \E a, b \in AutoWidgets : \E p \in PinnedWidgets :
            Offset(a) < Offset(p) /\ Offset(p) < Offset(b)

\* there is no unused offset below an auto-placed widget
NoGapBelowAuto ==
    \A c \in AutoWidgets : \A q \in 1..(Offset(c) - 1) :
        \E w \in InTable : Offset(w) = q

\* C6 as stated: in every reachable state, including the states right after a
\* widget has been closed or removed, the auto-placed widgets fill the lowest
\* offsets not used by a pinned widget.
AutoAlwaysPacked == NoGapBelowAuto

\* C6 as amended: right after every successful counter()/status_bar() call
\* there is no unused offset below an auto-placed widget, and close()/remove()
\* leave the offsets of the widgets that stay in the row table as they were.
AutoPackedUntilRemoval ==
    [][/\ (lastOp'.op = "add" /\ lastOp'.raised = "none") => NoGapBelowAuto'
       /\ lastOp'.op \in {"close", "remove"} =>
            \A c \in Ids : Managed(counters', c) =>
                /\ Managed(counters, c)
                /\ PosOf(counters', c) = PosOf(counters, c)]_vars

\* A close or remove has just left an unused offset below an auto-placed widget.
GapLeftByRemoval ==
    /\ lastOp.op \in {"close", "remove"}
    /\ lastOp.raised = "none"
    /\ ~NoGapBelowAuto

ReplaceTakesOverOffset ==
    [][(lastOp'.op = "add" /\ lastOp'.replace # NoCtr /\ Managed(counters, lastOp'.replace)) =>
            /\ lastOp'.raised = "none"
            /\ Managed(counters', lastOp'.id)
            /\ PosOf(counters', lastOp'.id) = PosOf(counters, lastOp'.replace)
            /\ ctr'[lastOp'.id].pinned = ctr[lastOp'.replace].pinned
            /\ ~Managed(counters', lastOp'.replace)]_vars

\* C3: when counter()/status_bar() raises a configuration error the manager is
\* left as it was before the call: the row table, the auto-refresh list,
\* scroll_offset and the pending buffers are unchanged, whatever other
\* options (such as autorefresh=True) the failed call carried.
FailedAddChangesNothing ==
    [][(lastOp'.op = "add" /\ lastOp'.raised = "ValueError") =>
            /\ counters' = counters
            /\ autorefresh' = autorefresh
            /\ scroll_offset' = scroll_offset
            /\ buffer' = buffer
            /\ cbuffer' = cbuffer]_vars

\* the largest offset in the row table plus 1
MaxOffsetPlusOne == SetMax(Values(counters)) + 1

\* C4 as stated: after every layout-changing operation of the terminal Manager
\* (a widget added, closed or removed, a resize handled) scroll_offset equals
\* the largest offset in the row table plus 1.
ScrollOffsetTracksTable ==
    [][(/\ cls = "Manager"
        /\ lastOp'.raised = "none"
        /\ \/ counters' # counters
           \/ lastOp'.op = "resize" /\ process_exit /\ ~threaded
        /\ counters' # <<>>) =>
            scroll_offset' = MaxOffsetPlusOne']_vars

\* C4 as amended: on the terminal Manager a successful counter()/status_bar()
\* call leaves scroll_offset at the larger of its previous value and the
\* largest offset in the row table plus 1, and every other completed operation
\* (close, remove, resize) leaves scroll_offset as it was.
ScrollOffsetGrowsToFit ==
    [][(cls = "Manager" /\ lastOp'.raised = "none") =>
            IF lastOp'.op = "add"
                THEN scroll_offset' = Max2(scroll_offset, MaxOffsetPlusOne')
                ELSE scroll_offset' = scroll_offset]_vars

\* The widget with the largest offset has just been removed from a terminal
\* Manager that still has widgets, and scroll_offset stayed above them.
ScrollAreaKeptAfterRemoval ==
    /\ cls = "Manager"
    /\ lastOp.op = "remove"
    /\ lastOp.flag
    /\ ~Managed(counters, lastOp.id)
    /\ counters # <<>>
    /\ scroll_offset > MaxOffsetPlusOne

\* the frames of one operation as one sequence of fragments
RECURSIVE Flatten(_)
Flatten(frames) ==
    IF frames = <<>> THEN <<>> ELSE Head(frames) \o Flatten(Tail(frames))

\* the row the cursor is on when fragment i is written: that of the last move
CursorRow(frags, i) ==
    LET moves == {j \in 1..(i - 1) : frags[j].k = "move"}
    IN  IF moves = {} THEN NoPos ELSE frags[SetMax(moves)].a

\* What a terminal shows on a row after the fragments: the widget whose text
\* was written there last, NoCtr when the row was cleared last, NoPos when the
\* fragments do not touch the row.
Shown(frags, row) ==
    LET touches == {i \in 1..Len(frags) :
                        \/ frags[i].k = "text" /\ CursorRow(frags, i) = row
                        \/ frags[i].k = "clear_eos" /\ CursorRow(frags, i) <= row}
    IN  IF touches = {} THEN NoPos
        ELSE IF frags[SetMax(touches)].k = "text" THEN frags[SetMax(touches)].a
        ELSE NoCtr

\* What the output of the manager shows at an offset once the operation that
\* leads to the next state has flushed.
ShownAtOffset(off) ==
    IF cls = "Manager" THEN Shown(Flatten(written'), termH' - off)
    ELSE IF off \in 1..Len(output') THEN output'[off].a
    ELSE NoCtr

\* C8: when adding a widget changes another widget's offset from X to Y, that
\* widget is cleared at row X and redrawn at row Y before the frame is flushed:
\* what is flushed shows the widget at Y and does not show it at X.
MovedWidgetRedrawn ==
    [][(lastOp'.op = "add" /\ lastOp'.raised = "none") =>
        \A c \in Ids :
            (/\ Managed(counters, c)
             /\ Managed(counters', c)
             /\ PosOf(counters, c) # PosOf(counters', c)
             /\ ctr[c].enabled) =>
                /\ buffer' = <<>>
                /\ ShownAtOffset(PosOf(counters, c)) # c
                /\ ShownAtOffset(PosOf(counters', c)) = c]_vars

\* C10: remove(w) deletes w from the row table and from the auto-refresh list
\* only if w.leave is False; if w.leave is True, or w is not in the row table,
\* it changes nothing and raises nothing; in every case no other widget's
\* offset changes and nothing is staged or written.
RemoveOnlyWithoutLeave ==
    [][lastOp'.op = "remove" =>
        /\ lastOp'.raised = "none"
        /\ IF ~ctr[lastOp'.id].leave /\ Managed(counters, lastOp'.id)
              THEN /\ ~Managed(counters', lastOp'.id)
                   /\ lastOp'.id \notin Range(autorefresh')
                   /\ \A c \in Range(autorefresh) \ {lastOp'.id} : c \in Range(autorefresh')
              ELSE /\ counters' = counters
                   /\ autorefresh' = autorefresh
        /\ \A c \in Ids \ {lastOp'.id} :
                Managed(counters, c) =>
                    /\ Managed(counters', c)
                    /\ PosOf(counters', c) = PosOf(counters, c)
        /\ Len(counters') >= Len(counters) - 1
        /\ buffer' = buffer
        /\ cbuffer' = cbuffer
        /\ output' = output
        /\ written' = <<>>
        /\ cwritten' = <<>>]_vars

\* An auto-refreshed widget with leave False has just been removed from the
\* row table and from the auto-refresh list while another widget stays.
AutoRefreshedWidgetRemoved ==
    /\ lastOp.op = "remove"
    /\ lastOp.flag
    /\ ~ctr[lastOp.id].leave
    /\ ~Managed(counters, lastOp.id)
    /\ counters # <<>>
    /\ autorefresh # <<>>

\* what the operation that leads to the next state staged: the fragments it
\* appended to the buffer, flushed or not
StagedByStep ==
    LET all == Flatten(written') \o buffer'
    IN  SubSeq(all, Len(buffer) + 1, Len(all))

\* C11: on an enabled terminal Manager with no resize pending,
\* write(output, counter=c) stages, in this order, the cursor move to row
\* (terminal height - offset of c), a carriage return, clear-to-end-of-line and
\* the output text, then the scroll-region/cursor restore, and only after all
\* of that, and only if flush is true, flushes the streams.
WriteStagesThenFlushes ==
    [][(lastOp'.op = "write" /\ lastOp'.id # NoCtr /\ cls = "Manager"
        /\ enabled /\ ~resize) =>
        LET c == lastOp'.id
            off == PosOf(counters, c)
            s == StagedByStep
            n == Len(s)
        IN  /\ lastOp'.raised = "none"
            /\ n >= 5
            /\ SubSeq(s, 1, 4) = <<Move(termH - off), CarriageReturn, ClearEol, Text(c)>>
            /\ s[n] = Move(Max2(0, height' - scroll_offset'))
            /\ \A i \in 5..(n - 1) : s[i].k = "csr" => i = n - 1
            /\ IF lastOp'.flag
                  THEN written' = <<buffer \o s>> /\ buffer' = <<>>
                  ELSE written' = <<>> /\ buffer' = buffer \o s]_vars

\* A write with flush=True has just flushed one frame that holds an earlier
\* unflushed write and its own fragments.
FlushedWriteFrame ==
    /\ lastOp.op = "write"
    /\ lastOp.flag
    /\ lastOp.raised = "none"
    /\ lastOp.id # NoCtr
    /\ Offset(lastOp.id) > 1
    /\ Len(written) = 1
    /\ Len(written[1]) >= 10
    /\ buffer = <<>>

\* how many times the step that leads to the next state staged widget c's text
TimesDrawn(c) ==
    Cardinality({i \in 1..Len(StagedByStep) : StagedByStep[i] = Text(c)})

\* C12: an auto-refresh cascade triggered by a write for widget A never
\* redraws A itself, A is drawn once, by the triggering write, and a write
\* issued while the cascade runs starts no other cascade: no widget is drawn
\* twice, nothing is flushed before the cascade is over and the cascade is
\* over when the call returns.
CascadeDrawsOthersOnce ==
    [][(/\ lastOp'.op \in {"write", "refresh"}
        /\ lastOp'.id # NoCtr
        /\ cls = "Manager" /\ enabled /\ ~resize) =>
            /\ lastOp'.raised = "none"
            /\ TimesDrawn(lastOp'.id) = 1
            /\ \A c \in Ids : TimesDrawn(c) <= 1
            /\ Len(written') <= 1
            /\ refresh_lock' = refresh_lock]_vars

\* A write for an auto-refreshed widget has just returned, and the frame it
\* flushed holds that widget's text and the text of another auto-refreshed
\* widget, which the cascade redrew.
CascadeRedrewOther ==
    /\ lastOp.op = "write"
    /\ lastOp.flag
    /\ lastOp.id \in Range(autorefresh)
    /\ Len(written) = 1
    /\ \E b \in Range(autorefresh) \ {lastOp.id} :
            \E i, j \in 1..Len(written[1]) :
                /\ i < j
                /\ written[1][i] = Text(lastOp.id)
                /\ written[1][j] = Text(b)
    /\ ~refresh_lock

\* the manager was constructed with enabled=False
ConstructedDisabled == ~enabled_default

HandlersRegisteredOnce ==
    [][/\ lastOp.op = "init" => registered = 0
       /\ registered' <= 1
       /\ registered' >= registered
       /\ registered' # registered =>
            /\ cls = "Manager"
            /\ enabled
            /\ lastOp'.op = "add"
            /\ counters = <<>>
       /\ (/\ cls = "Manager" /\ enabled
           /\ lastOp'.op = "add" /\ lastOp'.raised = "none") => registered' = 1
       /\ ~enabled => registered' = registered]_vars

\* A widget has just been added to a stopped terminal Manager whose handlers
\* were registered when its first widget was added.
AddedAfterStopNotRegistered ==
    /\ cls = "Manager"
    /\ enabled_default
    /\ ~enabled
    /\ AddSucceeded
    /\ registered = 1
    /\ Len(counters) = 2

\* C16: after stop() on an enabled manager of either class, manager.enabled is
\* False and every widget in the row table has enabled False.
StopDisablesManagerAndWidgets ==
    [][(lastOp'.op = "stop" /\ enabled /\ lastOp'.raised = "none") =>
            /\ ~enabled'
            /\ \A c \in Ids : Managed(counters', c) => ~ctr'[c].enabled]_vars

\* C15: stopped is a terminal state: once stop() has completed on an enabled
\* manager, the call that follows it (a second stop(), counter(),
\* manager.write(), refresh(), close(), the exit handler) writes to no stream,
\* registers no handler and leaves the manager disabled.
StoppedIsTerminal ==
    [][(lastOp.op = "stop" /\ lastOp.flag /\ lastOp.raised = "none") =>
            /\ written' = <<>>
            /\ cwritten' = <<>>
            /\ registered' = registered
            /\ ~enabled']_vars

\* the fragments frags clear the row of offset k: a move to it, then clear_eol
ClearsRow(frags, k) ==
    \E i \in 1..(Len(frags) - 1) :
        frags[i] = Move(termH - k) /\ frags[i + 1] = ClearEol

\* C17: stop() on an enabled terminal Manager stages a row clear for every
\* offset k with 1 <= k < scroll_offset that no widget occupies, and for no
\* occupied offset.
StopClearsUnoccupiedRows ==
    [][(lastOp'.op = "stop" /\ cls = "Manager" /\ enabled) =>
        \A k \in 1..(MaxPos + 1) :
            ClearsRow(StagedByStep, k) <=>
                (k < scroll_offset /\ k \notin Values(counters))]_vars

\* A terminal Manager with widgets at offsets 1 and 3 has just been stopped
\* and wrote a clear of the row of offset 2.
StopClearedGap ==
    /\ cls = "Manager"
    /\ lastOp.op = "stop"
    /\ lastOp.flag
    /\ Values(counters) = {1, 3}
    /\ Len(written) = 1
    /\ ClearsRow(written[1], 2)
    /\ ~ClearsRow(written[1], 1)

\* how many line feeds the step that leads to the next state staged
LineFeedsStaged ==
    Cardinality({i \in 1..Len(StagedByStep) : StagedByStep[i].k = "nl"})

\* C18: stop() on an enabled terminal Manager emits exactly one terminating
\* line feed, the last fragment it stages, when some widget occupies offset 1,
\* and none otherwise; the exit handler running after stop() stages and writes
\* nothing, so it adds no further line feed.
OneLineFeedAtShutdown ==
    [][/\ (lastOp'.op = "stop" /\ cls = "Manager" /\ enabled) =>
            IF 1 \in Values(counters)
                THEN /\ LineFeedsStaged = 1
                     /\ StagedByStep[Len(StagedByStep)] = LineFeeds(1)
                ELSE LineFeedsStaged = 0
       /\ (lastOp'.op = "at_exit" /\ enabled_default /\ ~enabled) =>
            /\ StagedByStep = <<>>
            /\ written' = <<>>
            /\ lastOp'.raised = "none"]_vars

\* The exit handler has just run on a terminal Manager that was stopped with
\* a widget at offset 1 and whose stream is open.
ExitHandlerAfterStop ==
    /\ cls = "Manager"
    /\ lastOp.op = "at_exit"
    /\ enabled_default
    /\ ~enabled
    /\ ~stream_closed
    /\ 1 \in Values(counters)
    /\ written = <<>>
    /\ buffer = <<>>

\* C19: teardown never propagates a stream failure: when the stream is
\* closed, stop() and the exit handler attempt their final cleanup writes,
\* swallow the error of write/flush and return normally.
TeardownSwallowsStreamFailure ==
    [][(stream_closed /\ lastOp'.op \in {"stop", "at_exit"} /\ cls = "Manager") =>
            lastOp'.raised = "none"]_vars

\* how many resize passes the step that leads to the next state ran: each pass
\* stages one clear_eos
ResizePasses ==
    Cardinality({i \in 1..Len(StagedByStep) : StagedByStep[i] = ClearEos})

\* C20: in threaded mode a resize signal only sets the pending flag: no
\* geometry is recomputed and nothing is staged or written at signal time;
\* whatever number of signals came before it, the next write() runs exactly one
\* resize pass and leaves the pending flag False, and a call that does not
\* write leaves the flag pending.
ThreadedResizeDeferred ==
    [][(cls = "Manager" /\ threaded /\ enabled) =>
        /\ (lastOp'.op = "resize" /\ process_exit) =>
                /\ resize'
                /\ termH' = termH
                /\ height' = height
                /\ scroll_offset' = scroll_offset
                /\ counters' = counters
                /\ buffer' = buffer
                /\ written' = <<>>
                /\ lastOp'.raised = "none"
        /\ (lastOp'.op # "resize" /\ resize) =>
                /\ ResizePasses <= 1
                /\ ResizePasses = 1 <=> ~resize'
                /\ ResizePasses = 1 => termH' = realH /\ height' = realH
                /\ lastOp'.op \in {"write", "refresh"} => ResizePasses = 1
        /\ (lastOp'.op # "resize" /\ ~resize) =>
                /\ ResizePasses = 0
                /\ ~resize']_vars

\* In threaded mode a write has just run the resize pass for signals that
\* took the terminal to another height and back: the pending flag is False
\* and the frame holds the pass, for a terminal of the height it had before.
DeferredResizeHandled ==
    /\ cls = "Manager"
    /\ threaded
    /\ lastOp.op = "write"
    /\ ~resize
    /\ Len(written) = 1
    /\ \E i \in 1..Len(written[1]) : written[1][i] = ClearEos
    /\ \A i \in 1..Len(written[1]) : written[1][i].k # "nl"
    /\ Len(counters) = 2

\* the calls of _resize_handler that are past the test of resize_lock
PassesInProgress ==
    {<<t, i>> \in Threads \X (1..MaxDepth) :
        /\ i <= Len(stacks[t])
        /\ stacks[t][i].fn = "handler"
        /\ stacks[t][i].pc \in {"lock", "body", "unlock"}}

\* C21: at most one resize pass is in progress at any time: an entry into the
\* resize handler, from a signal between any two steps or from write() on any
\* thread, that finds an earlier pass unfinished does no work.
OneResizePass == Cardinality(PassesInProgress) <= 1

\* C22: no resize is lost: once signals have stopped, the calls they
\* interrupted have returned, and one further write() has started and
\* completed, the manager's height and the cached terminal height equal the
\* terminal's real height.
NoResizeLost ==
    (Idle /\ quiet) => (height = realH /\ termH = realH)

\* the scroll regions the step that leads to the next state staged
RegionsStaged == {i \in 1..Len(StagedByStep) : StagedByStep[i].k = "csr"}

\* C23: no widget is drawn off-screen: after any widget creation and after a
\* handled resize to any new height H, every widget in the row table has an
\* offset of at most H, so that its row H - offset is a row of the screen, and
\* a scroll region the terminal Manager sets in that step ends at row
\* H - scroll_offset (row 0 when scroll_offset is H + 1).
NoWidgetOffScreen ==
    [][(/\ lastOp'.raised = "none"
        /\ \/ lastOp'.op = "add"
           \/ lastOp'.op = "resize" /\ cls = "Manager" /\ process_exit /\ ~threaded) =>
            /\ \A c \in Ids : Managed(counters', c) => PosOf(counters', c) <= termH'
            /\ (cls = "Manager" /\ RegionsStaged # {}) =>
                    StagedByStep[SetMax(RegionsStaged)] =
                        Csr(0, Max2(0, termH' - scroll_offset'))]_vars

\* manager i is active: enabled, with its handlers registered
Active(i) == mgrs[i].made /\ mgrs[i].enabled /\ mgrs[i].process_exit

\* C24: two managers over different streams do not interfere: every active
\* manager has its resize handling installed, so that it reacts to a resize
\* signal, also after another manager, active or not, has been stopped.
ManagersDoNotInterfere ==
    \A i \in Managers : Active(i) => sigwinch = i

\* the calls of name among the calls the step made on the streams
CallsOf(name) == {i \in 1..Len(calls') : calls'[i] = name}

\* C25: a flush makes at most one write call per stream, carrying the
\* fragments staged for that stream concatenated in staging order; it writes
\* and flushes the primary stream before the companion stream; and when it
\* returns both buffers are empty, the companion buffer also when there is no
\* companion stream.  Within any operation, every write of a stream is
\* followed at once by the flush of that stream, and the companion stream is
\* touched only right after a flush of the primary stream.
FlushWritesEachStreamOnce ==
    [][/\ (lastOp'.op = "flush" /\ lastOp'.raised = "none") =>
            /\ written' = IF buffer # <<>> THEN <<buffer>> ELSE <<>>
            /\ cwritten' = IF companion /\ cbuffer # <<>> THEN <<cbuffer>> ELSE <<>>
            /\ Cardinality(CallsOf("stream.write")) <= 1
            /\ Cardinality(CallsOf("companion_stream.write")) <= 1
            /\ Cardinality(CallsOf("stream.flush")) = 1
            /\ \A i \in CallsOf("stream.write") \cup CallsOf("stream.flush") :
               \A j \in CallsOf("companion_stream.write")
                            \cup CallsOf("companion_stream.flush") : i < j
            /\ buffer' = <<>>
            /\ cbuffer' = <<>>
       /\ Cardinality(CallsOf("stream.write")) = Len(written')
       /\ Cardinality(CallsOf("companion_stream.write")) = Len(cwritten')
       /\ \A i \in CallsOf("stream.write") :
                i < Len(calls') /\ calls'[i + 1] = "stream.flush"
       /\ \A i \in CallsOf("companion_stream.write") :
                /\ i > 1 /\ calls'[i - 1] = "stream.flush"
                /\ i < Len(calls') /\ calls'[i + 1] = "companion_stream.flush"
       /\ \A i \in CallsOf("companion_stream.flush") :
                i > 1 /\ calls'[i - 1] \in {"stream.flush", "companion_stream.write"}
       /\ (lastOp'.raised = "none" /\ calls' # <<>>) => buffer' = <<>> /\ cbuffer' = <<>>]_vars

\* a flush wrote both streams
FlushedBothStreams ==
    /\ lastOp.op = "flush"
    /\ calls = <<"stream.write", "stream.flush",
                 "companion_stream.write", "companion_stream.flush">>
    /\ buffer = <<>>
    /\ cbuffer = <<>>

\* the kinds of fragment the terminal Manager stages for the companion stream
\* (_manager.py:367-370, 469-475)
CompanionKinds == {"move", "csr", "normal_cursor", "hide_cursor"}

\* C26: the companion buffer only ever holds cursor-position, scroll-region
\* and cursor-visibility sequences: no widget text and no output passed to
\* write() is staged for, or written to, the companion stream.
CompanionGetsNoText ==
    /\ \A i \in 1..Len(cbuffer) : cbuffer[i].k \in CompanionKinds
    /\ \A f \in 1..Len(cwritten) :
       \A i \in 1..Len(cwritten[f]) : cwritten[f][i].k \in CompanionKinds

\* widget text went to the primary stream and the companion stream was written
CompanionWrittenBesideText ==
    /\ companion
    /\ cwritten # <<>>
    /\ \E f \in 1..Len(written) : \E i \in 1..Len(written[f]) : written[f][i].k = "text"

\* the step closes a widget that is not left on close: enabled, in the row
\* table of an enabled terminal Manager, and close() returns
ClosesUnleftWidget ==
    /\ lastOp'.op = "close"
    /\ lastOp'.raised = "none"
    /\ cls = "Manager"
    /\ enabled
    /\ ~resize
    /\ ctr[lastOp'.id].enabled
    /\ ~ctr[lastOp'.id].leave
    /\ Managed(counters, lastOp'.id)

\* what the terminal shows, after the step, on the row the closed widget had
ShownOnClosedRow ==
    Shown(Flatten(written'), termH - PosOf(counters, lastOp'.id))

\* C27 as stated: closing a widget whose leave is False removes it from the
\* row table, and the row it last occupied is cleared by the next flush.
ClosedRowCleared ==
    [][ClosesUnleftWidget =>
        /\ ~Managed(counters', lastOp'.id)
        /\ ShownOnClosedRow = NoCtr]_vars

\* C27: closing a widget whose leave is False removes it from the row table;
\* with clear=True the row it occupied is cleared and the clear is flushed
\* within the close() call, and with clear=False (the default) the row is
\* redrawn with the widget's final text and flushed, not cleared.
ClosedRowClearedOnRequest ==
    [][ClosesUnleftWidget =>
        /\ ~Managed(counters', lastOp'.id)
        /\ buffer' = <<>>
        /\ ShownOnClosedRow = IF lastOp'.flag THEN NoCtr ELSE lastOp'.id]_vars

\* a widget whose leave is False has just been closed with clear=True while
\* another widget stays in the row table
ClosedWithClear ==
    /\ lastOp.op = "close"
    /\ lastOp.flag
    /\ lastOp.raised = "none"
    /\ cls = "Manager"
    /\ ctr[lastOp.id].held
    /\ ~ctr[lastOp.id].leave
    /\ ~Managed(counters, lastOp.id)
    /\ counters # <<>>
    /\ \E f \in 1..Len(written) : \E i \in 1..Len(written[f]) :
            written[f][i] = Text(NoCtr)

\* C28: close() on a widget that is already closed never raises, whatever the
\* clear argument and the leave flag: the refresh or clear and the removal are
\* skipped, so nothing is staged or written and the row table is unchanged.
SecondCloseHarmless ==
    [][(lastOp'.op = "close" /\ ctr[lastOp'.id].closed) =>
        /\ lastOp'.raised = "none"
        /\ written' = <<>>
        /\ buffer' = buffer
        /\ counters' = counters]_vars

\* the count of the counter an update_from() call takes from, in the widgets w
SourceCount(w, source) ==
    IF source.kind = "counter" THEN w[source.c].count
    ELSE w[source.c].subcounters[source.i]

\* the counts of all counters and subcounters are what they were
CountsUnchanged ==
    \A c \in Ids : /\ ctr'[c].count = ctr[c].count
                   /\ ctr'[c].subcounters = ctr[c].subcounters

\* C29 as stated: update_from(source, n) either raises ValueError and leaves
\* the counts of the subcounter, the source and the parent unchanged, or the
\* source's count decreases by n and the subcounter's count increases by n.
TransferDebitsSource ==
    [][lastOp'.op = "update_from" =>
        LET c == lastOp'.id
            i == lastOp'.sub
            n == lastOp'.incr
        IN  \/ lastOp'.raised = "ValueError" /\ CountsUnchanged
            \/ /\ SourceCount(ctr', lastOp'.source) = SourceCount(ctr, lastOp'.source) - n
               /\ ctr'[c].subcounters[i] = ctr[c].subcounters[i] + n]_vars

\* C29: update_from(source, n) is atomic.  When the source is neither the
\* parent nor a peer, or the amount is not available, it raises ValueError
\* and every count is unchanged.  Otherwise the subcounter's count increases
\* by n and, when the source is a peer, the peer's count decreases by n; when
\* the source is the parent, the parent's count is unchanged (the amount comes
\* out of the part of it that no subcounter covers); when the source is the
\* subcounter itself nothing changes.  No other count changes, and the call
\* then raises only if the redraw fails on a closed stream.
TransferIsAtomic ==
    [][lastOp'.op = "update_from" =>
        LET c == lastOp'.id
            i == lastOp'.sub
            n == lastOp'.incr
            source == lastOp'.source
            isParent == source = FromCounter(c)
            isPeer == source.kind = "subcounter" /\ source.c = c
            refused == \/ ~(isParent \/ isPeer)
                       \/ ctr[c].subcounters[i] + n < 0
                       \/ SourceCount(ctr, source) - n < 0
                       \/ isParent /\ ctr[c].count - SumSeq(ctr[c].subcounters) - n < 0
        IN  IF refused
                THEN lastOp'.raised = "ValueError" /\ CountsUnchanged
                ELSE /\ \A x \in Ids : ctr'[x].count = ctr[x].count
                     /\ \A x \in Ids \ {c} : ctr'[x].subcounters = ctr[x].subcounters
                     /\ Len(ctr'[c].subcounters) = Len(ctr[c].subcounters)
                     /\ \A k \in 1..Len(ctr[c].subcounters) :
                            ctr'[c].subcounters[k] =
                                ctr[c].subcounters[k]
                                    + (IF k = i THEN n ELSE 0)
                                    - (IF isPeer /\ k = source.i THEN n ELSE 0)
                     /\ lastOp'.raised # "none" =>
                            lastOp'.raised = "ValueError" /\ stream_closed]_vars

\* a subcounter has just taken an amount from its parent
TransferredFromParent ==
    /\ lastOp.op = "update_from"
    /\ lastOp.raised = "none"
    /\ lastOp.source = FromCounter(lastOp.id)
    /\ lastOp.incr > 0
    /\ ctr[lastOp.id].subcounters[lastOp.sub] > 0

\* C30: for a parent counter and the subcounters created through
\* add_subcounter, the sum of the subcounter counts never exceeds the parent's
\* count, after any sequence of parent.update(), subcounter.update() and
\* subcounter.update_from() calls with increments of either sign.
SubcountWithinCount ==
    \A c \in Ids : ctr[c].subcounters # <<>> =>
                        ctr[c].count - SumSeq(ctr[c].subcounters) >= 0

\* the step staged the text of the widget it is about
Redrawn == \E i \in 1..Len(StagedByStep) : StagedByStep[i] = Text(lastOp'.id)

\* C31: Counter.update(incr, force) always adds incr to count, and it redraws
\* (sets last_update and calls refresh) if and only if the widget is enabled
\* and force is true, or count now equals total, or min_delta seconds have
\* passed since last_update; reaching total always redraws an enabled widget
\* and a disabled widget never redraws.  On an enabled manager the redraw
\* stages the widget's text, and nothing of the widget is staged without it.
UpdateRedrawsWhenDue ==
    [][lastOp'.op = "update" =>
        LET c == lastOp'.id
        IN  /\ ctr'[c].count = ctr[c].count + lastOp'.incr
            /\ lastOp'.refreshed <=> /\ ctr[c].enabled
                                     /\ \/ lastOp'.flag
                                        \/ ctr'[c].count \in ctr[c].total
                                        \/ lastOp'.due
            /\ Redrawn <=> (lastOp'.refreshed /\ enabled)]_vars

\* an update without force, before min_delta has elapsed, has just taken the
\* count to the total and redrawn the widget
RedrawnAtTotal ==
    /\ lastOp.op = "update"
    /\ ~lastOp.flag
    /\ ~lastOp.due
    /\ ctr[lastOp.id].count \in ctr[lastOp.id].total
    /\ \E f \in 1..Len(written) : \E i \in 1..Len(written[f]) :
            written[f][i] = Text(lastOp.id)

\* C32: height and width queries keep returning the values of the first
\* probe, whatever the real terminal size becomes, until clear_cache() is
\* called; the first query after clear_cache() probes the real terminal again.
\* The cache changes only when it is cleared or when a query fills it.
QueriesAnswerFromCache ==
    [][/\ lastOp'.op = "height_and_width" =>
            /\ lastOp'.result = IF cache # <<>> THEN cache[1] ELSE <<realH, realW>>
            /\ cache' = <<lastOp'.result>>
       /\ cache' # cache =>
            \/ lastOp'.op = "clear_cache" /\ cache' = <<>>
            \/ lastOp'.op = "height_and_width" /\ cache = <<>>]_vars

\* a query has just returned a size the real terminal no longer has
StaleSizeReturned ==
    /\ lastOp.op = "height_and_width"
    /\ lastOp.result # <<realH, realW>>
    /\ cache = <<lastOp.result>>

\* C33: the reentrancy flags never stay stuck: once the operation that ran an
\* auto-refresh cascade or a resize pass has exited, for any reason,
\* refresh_lock and resize_lock are False again.
LocksReleased == ~refresh_lock /\ ~resize_lock

\* the step staged, for the row of offset k, the write of an empty output:
\* move, carriage return, clear_eol and the empty text
StagedClearAt(k) ==
    \E i \in 1..(Len(StagedByStep) - 3) :
        SubSeq(StagedByStep, i, i + 3) =
            <<Move(termH' - k), CarriageReturn, ClearEol, Text(NoCtr)>>

\* C34: a requested write is never swallowed by resize handling: on an
\* enabled manager write(output, counter=c) always stages output at c's row,
\* in immediate and in deferred resize mode, including the first write after
\* a resize signal.  For the write of the empty output that clear() requests:
\* close(clear=True) of an enabled widget whose leave is False stages the
\* clear of its row.
WriteNeverSwallowed ==
    [][(/\ lastOp'.op = "close"
        /\ lastOp'.flag
        /\ cls = "Manager"
        /\ enabled
        /\ ctr[lastOp'.id].enabled
        /\ ~ctr[lastOp'.id].leave
        /\ Managed(counters, lastOp'.id)) =>
            StagedClearAt(PosOf(counters, lastOp'.id))]_vars

\* C35: the terminal Manager is only ever asked to draw widgets that are in
\* its row table: no operation makes write() look up the offset of a widget
\* that is absent from the row table, which raises KeyError.
OnlyManagedWidgetsDrawn == cls = "Manager" => lastOp.raised # "KeyError"

\* C36: write() and the resize handler complete without error on an enabled
\* terminal Manager whose row table is empty.
EmptyTableHandled ==
    [][(/\ cls = "Manager"
        /\ enabled
        /\ counters = <<>>
        /\ lastOp'.op \in {"write", "resize"}) => lastOp'.raised = "none"]_vars

\* C37: in every state reachable through counter(), status_bar(), replace,
\* close() and remove(), no two widgets in the row table, pinned or
\* auto-placed, have the same offset.
OffsetsUnique ==
    \A a, b \in InTable : a # b => Offset(a) # Offset(b)

\* A widget has just been pinned at offset 1, the offset the newest
\* auto-placed widget held, and two auto-placed widgets are in the row table.
PinnedOverAuto ==
    /\ AddSucceeded
    /\ lastOp.pos = 1
    /\ lastOp.id \in PinnedWidgets
    /\ Cardinality({a \in AutoWidgets : a < lastOp.id}) = 2

\* C38: scroll_offset never decreases during a manager's life: when the
\* largest offset in the row table has become lower than before, recomputing
\* the scroll area leaves scroll_offset at its previous value.
ScrollOffsetNeverDecreases ==
    [][scroll_offset' >= scroll_offset]_vars

\* A write on an enabled terminal Manager has just recomputed the scroll area
\* while the widgets left in the row table end below scroll_offset.
RecomputedBelowScrollOffset ==
    /\ cls = "Manager"
    /\ enabled
    /\ lastOp.op \in {"write", "refresh"}
    /\ lastOp.raised = "none"
    /\ counters # <<>>
    /\ MaxOffsetPlusOne < scroll_offset

\* the operation that leads to the next state made scroll_offset grow on an
\* enabled terminal Manager that sets the scroll region
ScrollOffsetGrows ==
    /\ cls = "Manager"
    /\ enabled
    /\ set_scroll
    /\ lastOp'.raised = "none"
    /\ scroll_offset' > scroll_offset

\* s holds the fragments q, one after the other, from index i + 1 on
HoldsAt(s, i, q) == i + Len(q) <= Len(s) /\ SubSeq(s, i + 1, i + Len(q)) = q

\* the fragments staged for a growth from a to b with the first move to row
\* top and the scroll region ending at row bottom
GrowthFragments(top, n, bottom) ==
    <<[k |-> "move", a |-> top, b |-> 0], [k |-> "nl", a |-> n, b |-> 0],
      HideCursor, Csr(0, bottom), [k |-> "move", a |-> bottom, b |-> 0]>>

\* C39 as stated: when scroll_offset grows from a to b on an enabled manager
\* that sets the scroll region, exactly b - a line feeds are staged at row
\* (height - a) before the new scroll region is staged, in the order: move,
\* line feeds, hide cursor, set scroll region to rows 0..(height - b), move to
\* row (height - b); nothing is written to the stream by this step itself.
GrowthStagedAtHeightMinusOffset ==
    [][ScrollOffsetGrows =>
        LET q == GrowthFragments(termH' - scroll_offset, scroll_offset' - scroll_offset,
                                 termH' - scroll_offset')
        IN  /\ \E i \in 0..Len(StagedByStep) : HoldsAt(StagedByStep, i, q)
            /\ lastOp'.op = "set_scroll_area" =>
                    (written' = <<>> /\ buffer' = buffer \o q)]_vars

\* C39 as amended: when scroll_offset grows from a to b on an enabled manager
\* that sets the scroll region, exactly b - a line feeds are staged at row
\* max(0, height - a) before the new scroll region is staged, in the order:
\* move, line feeds, hide cursor, set scroll region to rows
\* 0..max(0, height - b), move to row max(0, height - b); the recomputation
\* itself writes nothing to the stream.
GrowthStagedOnScreen ==
    [][ScrollOffsetGrows =>
        LET q == GrowthFragments(Max2(0, termH' - scroll_offset),
                                 scroll_offset' - scroll_offset,
                                 Max2(0, termH' - scroll_offset'))
        IN  /\ \E i \in 0..Len(StagedByStep) : HoldsAt(StagedByStep, i, q)
            /\ lastOp'.op = "set_scroll_area" =>
                    (written' = <<>> /\ buffer' = buffer \o q)]_vars

\* A recomputation called on its own has just staged, and not written, two
\* or more line feeds for a scroll_offset that grew past the terminal height.
GrowthStagedPastTop ==
    /\ lastOp.op = "set_scroll_area"
    /\ lastOp.raised = "none"
    /\ written = <<>>
    /\ Len(buffer) = 5
    /\ buffer[2].k = "nl"
    /\ buffer[2].a >= 2
    /\ scroll_offset > termH
    /\ buffer[5] = Move(0)

\* the cursor move to the bottom line of the scroll region in the next state
BottomOfRegion == Move(Max2(0, termH' - scroll_offset'))

\* C40: every recomputation of the scroll area on an enabled manager that
\* sets the scroll region ends by staging a cursor move to the bottom line of
\* the scroll region (row max(0, height - scroll_offset)) for the primary
\* stream, and stages the same move for the companion stream whenever one is
\* configured, even when the scroll region itself did not change.
RecomputationResetsPosition ==
    [][(/\ cls = "Manager"
        /\ enabled
        /\ set_scroll
        /\ lastOp'.op \in {"set_scroll_area", "add"}
        /\ lastOp'.raised = "none") =>
            /\ StagedByStep # <<>>
            /\ StagedByStep[Len(StagedByStep)] = BottomOfRegion
            /\ LET staged == Flatten(cwritten') \o cbuffer'
               IN  IF companion
                    THEN staged # <<>> /\ staged[Len(staged)] = BottomOfRegion
                    ELSE staged = <<>>
            /\ lastOp'.op = "set_scroll_area" =>
                    cbuffer' = IF companion THEN <<BottomOfRegion>> ELSE <<>>]_vars

\* A recomputation that changed neither scroll_offset nor the scroll region
\* has just staged the cursor move, and nothing else, for both streams.
PositionResetForBothStreams ==
    /\ lastOp.op = "set_scroll_area"
    /\ ~lastOp.flag
    /\ lastOp.raised = "none"
    /\ companion
    /\ counters # <<>>
    /\ MaxOffsetPlusOne < scroll_offset
    /\ buffer = <<Move(Max2(0, termH - scroll_offset))>>
    /\ cbuffer = buffer

====
